---------------------------- MODULE Spec2Model ----------------------------
(***************************************************************************)
(* Model of the Health AI chat back end: the FastAPI handler of            *)
(* POST /api/chat (backend/app/main.py) and the HealthAIAgent it drives    *)
(* (backend/app/agent/health_agent.py).                                    *)
(*                                                                         *)
(* Python str values are TLA+ strings, dicts are functions whose DOMAIN is *)
(* the set of keys that are present, lists are sequences.  The external    *)
(* PinAI platform is the environment: each call to it has an outcome the   *)
(* model draws from a small set.                                           *)
(***************************************************************************)
EXTENDS Integers, Sequences, FiniteSets, TLC

(***************************************************************************)
(* Bounds of the model.                                                    *)
(***************************************************************************)
MaxRequests == 2
MaxPlatformRequests == 1
\* Calls made on the agent itself, past its HTTP front.
MaxAgentCalls == 2
\* Length of the histories the chat-state check is applied to.
MaxHistory == 12
\* Requests of one conversation with an agent without a platform client.
MaxConversation == 7

(***************************************************************************)
(* Python str operations.                                                  *)
(***************************************************************************)
UpperToLower ==
  [c \in {"A", "B", "C", "D", "E", "F", "G", "H", "I", "J", "K", "L", "M",
          "N", "O", "P", "Q", "R", "S", "T", "U", "V", "W", "X", "Y", "Z"} |->
     CASE c = "A" -> "a" [] c = "B" -> "b" [] c = "C" -> "c" [] c = "D" -> "d"
       [] c = "E" -> "e" [] c = "F" -> "f" [] c = "G" -> "g" [] c = "H" -> "h"
       [] c = "I" -> "i" [] c = "J" -> "j" [] c = "K" -> "k" [] c = "L" -> "l"
       [] c = "M" -> "m" [] c = "N" -> "n" [] c = "O" -> "o" [] c = "P" -> "p"
       [] c = "Q" -> "q" [] c = "R" -> "r" [] c = "S" -> "s" [] c = "T" -> "t"
       [] c = "U" -> "u" [] c = "V" -> "v" [] c = "W" -> "w" [] c = "X" -> "x"
       [] c = "Y" -> "y" [] c = "Z" -> "z"]

\* str.lower() of one character.
LowerChar(c) == IF c \in DOMAIN UpperToLower THEN UpperToLower[c] ELSE c

\* str.lower(): every character lower-cased, the string split in halves so
\* that the evaluation stays shallow.
RECURSIVE Lower(_)
Lower(s) ==
  IF Len(s) = 0 THEN ""
  ELSE IF Len(s) = 1 THEN LowerChar(s)
  ELSE Lower(SubSeq(s, 1, Len(s) \div 2))
       \o Lower(SubSeq(s, Len(s) \div 2 + 1, Len(s)))

\* Python's `t in s` for two str values.
Contains(s, t) ==
  \E i \in 1..(Len(s) - Len(t) + 1) : SubSeq(s, i, i + Len(t) - 1) = t

\* any(term in s for term in terms)
AnyTermIn(terms, s) == \E k \in 1..Len(terms) : Contains(s, terms[k])

\* "\n".join(lines)
RECURSIVE JoinLines(_)
JoinLines(lines) ==
  IF Len(lines) = 0 THEN ""
  ELSE IF Len(lines) = 1 THEN lines[1]
  ELSE lines[1] \o "\n" \o JoinLines(Tail(lines))

\* seq[-n:]
LastN(seq, n) ==
  IF Len(seq) <= n THEN seq ELSE SubSeq(seq, Len(seq) - n + 1, Len(seq))

\* dict.get(key, default)
Get(d, key, default) == IF key \in DOMAIN d THEN d[key] ELSE default

\* The empty dict {} and its truth value.
EmptyDict == [k \in {} |-> ""]
Truthy(d) == DOMAIN d # {}


(***************************************************************************)
(* Exceptions.  A call either returns a text or raises; str(e) of the      *)
(* exception is kept because POST /api/chat echoes it.                     *)
(***************************************************************************)
Ok(t) == [raised |-> FALSE, text |-> t]
Raise(e) == [raised |-> TRUE, text |-> e]

\* str(KeyError(k))
KeyError(k) == Raise("'" \o k \o "'")

\* The first key of `keys` that dict d lacks, "" when it has them all:
\* the subscript d[k] that raises first when they are read in this order.
RECURSIVE FirstMissing(_, _)
FirstMissing(d, keys) ==
  IF Len(keys) = 0 THEN ""
  ELSE IF Head(keys) \notin DOMAIN d THEN Head(keys)
  ELSE FirstMissing(d, Tail(keys))

\* d.get("status") == s
StatusIs(d, s) == "status" \in DOMAIN d /\ d["status"] = s

(***************************************************************************)
(* The `results` mapping of a blood test keeps the order of the JSON file  *)
(* (a Python dict iterates in insertion order): a sequence of              *)
(* [name, data] items with distinct names.                                 *)
(***************************************************************************)
ODHas(od, k) == \E i \in 1..Len(od) : od[i].name = k
ODGet(od, k, default) ==
  IF ODHas(od, k) THEN od[CHOOSE i \in 1..Len(od) : od[i].name = k].data
  ELSE default

(***************************************************************************)
(* Numbers.  A JSON float with one decimal is kept in tenths (98.6 is 986, *)
(* 6.5 hours is 65); the sleep hours of the model are multiples of 0.5, so *)
(* that sums and the ties of the rounding are exact in binary floating     *)
(* point as well.                                                          *)
(***************************************************************************)
\* str(x) of a float given in tenths
FmtTenths(t) == ToString(t \div 10) \o "." \o ToString(t % 10)

\* f"{total / n:.1f}" for a sum given in tenths: round half to even
RoundAvg(total, n) ==
  LET q == total \div n
      r == total % n
  IN  IF 2 * r < n THEN q
      ELSE IF 2 * r > n THEN q + 1
      ELSE IF q % 2 = 0 THEN q ELSE q + 1

RECURSIVE SumField(_, _)
SumField(days, key) ==
  IF Len(days) = 0 THEN 0 ELSE Head(days)[key] + SumField(Tail(days), key)

(***************************************************************************)
(* Metric analyzers.  Prose paragraphs are kept up to the end of their     *)
(* first sentence and bullet lists up to their heading; the text left out  *)
(* holds none of the chat-state terms.                                     *)
(***************************************************************************)
BloodResultKeys == <<"value", "unit", "normalRange", "status">>

\* health_agent.py 389: the results that go to abnormal_results
AbnormalResults(items) ==
  SelectSeq(items, LAMBDA it : ~StatusIs(it.data, "normal"))

\* health_agent.py 406-408
BloodTestLine(it) ==
  "- " \o it.name \o ": " \o it.data["value"] \o " " \o it.data["unit"] \o " "
  \o "(Normal range: " \o it.data["normalRange"] \o ", Status: "
  \o it.data["status"] \o ")\n"

\* health_agent.py 411-436
BloodTestInsight(it) ==
  IF it.name = "glucose" /\ it.data["status"] = "elevated"
    THEN "\nYour glucose level is elevated."
  ELSE IF it.name = "cholesterolTotal" /\ it.data["status"] = "elevated"
    THEN "\nYour total cholesterol is elevated."
  ELSE IF it.name = "cholesterolLDL" /\ it.data["status"] = "elevated"
    THEN "\nYour LDL ('bad') cholesterol is elevated."
  ELSE IF it.name = "triglycerides" /\ it.data["status"] = "elevated"
    THEN "\nYour triglyceride levels are elevated."
  ELSE IF it.name = "vitaminD" /\ it.data["status"] = "deficient"
    THEN "\nYou have vitamin D deficiency."
  ELSE ""

\* health_agent.py 405-407: the loop over abnormal_results
RECURSIVE BloodTestLines(_)
BloodTestLines(results) ==
  IF Len(results) = 0 THEN ""
  ELSE BloodTestLine(Head(results)) \o BloodTestLines(Tail(results))

\* health_agent.py 410-436: the second loop over abnormal_results
RECURSIVE BloodTestInsights(_)
BloodTestInsights(results) ==
  IF Len(results) = 0 THEN ""
  ELSE BloodTestInsight(Head(results)) \o BloodTestInsights(Tail(results))

analyze_blood_test(blood_tests) ==
  IF Len(blood_tests) = 0
    THEN Ok("No blood test data available for analysis.")
  ELSE
    LET latest_test == blood_tests[1]
    IN
    IF "results" \notin DOMAIN latest_test THEN KeyError("results")
    ELSE
      LET abnormal_results == AbnormalResults(latest_test["results"])
          broken == SelectSeq(abnormal_results,
                      LAMBDA it : FirstMissing(it.data, BloodResultKeys) # "")
      IN
      IF Len(broken) > 0
        THEN KeyError(FirstMissing(broken[1].data, BloodResultKeys))
      ELSE IF "date" \notin DOMAIN latest_test THEN KeyError("date")
      ELSE
        Ok("Blood Test Analysis (from " \o latest_test["date"] \o "):\n\n"
           \o (IF Len(abnormal_results) = 0
                 THEN "All test results are within normal ranges. Your blood work looks healthy!"
                 ELSE "Found " \o ToString(Len(abnormal_results))
                      \o " test result(s) outside normal ranges:\n\n"
                      \o BloodTestLines(abnormal_results)
                      \o BloodTestInsights(abnormal_results)))

\* The subscripts _analyze_vitals reads, in the order it reads them.
VitalsFirstMissing(v) ==
  IF "date" \notin DOMAIN v THEN "date"
  ELSE IF "bloodPressure" \notin DOMAIN v THEN "bloodPressure"
  ELSE IF FirstMissing(v["bloodPressure"], <<"systolic", "diastolic", "status">>) # ""
    THEN FirstMissing(v["bloodPressure"], <<"systolic", "diastolic", "status">>)
  ELSE IF "heartRate" \notin DOMAIN v THEN "heartRate"
  ELSE IF FirstMissing(v["heartRate"], <<"value", "unit", "status">>) # ""
    THEN FirstMissing(v["heartRate"], <<"value", "unit", "status">>)
  ELSE IF "oxygenSaturation" \notin DOMAIN v THEN "oxygenSaturation"
  ELSE IF FirstMissing(v["oxygenSaturation"], <<"value", "unit", "status">>) # ""
    THEN FirstMissing(v["oxygenSaturation"], <<"value", "unit", "status">>)
  ELSE IF "temperature" \notin DOMAIN v THEN "temperature"
  ELSE FirstMissing(v["temperature"], <<"value", "unit", "status">>)

analyze_vitals(vitals) ==
  IF Len(vitals) = 0
    THEN Ok("No vital sign data available for analysis.")
  ELSE
    LET latest_vitals == vitals[1]
    IN
    IF VitalsFirstMissing(latest_vitals) # ""
      THEN KeyError(VitalsFirstMissing(latest_vitals))
    ELSE
      LET bp == latest_vitals["bloodPressure"]
          hr == latest_vitals["heartRate"]
          ox == latest_vitals["oxygenSaturation"]
          temp == latest_vitals["temperature"]
      IN
      Ok("Vital Signs Analysis (from " \o latest_vitals["date"] \o "):\n\n"
         \o "Blood Pressure: " \o ToString(bp["systolic"]) \o "/"
         \o ToString(bp["diastolic"]) \o " mmHg (" \o bp["status"] \o ")\n"
         \o (IF bp["status"] = "elevated"
               THEN "Your blood pressure is elevated.\n\n"
               ELSE "Your blood pressure is within normal range.\n\n")
         \o "Heart Rate: " \o ToString(hr["value"]) \o " " \o hr["unit"]
         \o " (" \o hr["status"] \o ")\n"
         \o "Oxygen Saturation: " \o ToString(ox["value"]) \o ox["unit"]
         \o " (" \o ox["status"] \o ")\n"
         \o "Body Temperature: " \o FmtTenths(temp["value"]) \o " " \o temp["unit"]
         \o " (" \o temp["status"] \o ")\n")

\* The key of the first day["..."] subscript that raises in the three sums
\* of _analyze_sleep, "" when none does.
SleepFirstMissing(sleep_data, keys) ==
  IF Len(keys) = 0 THEN ""
  ELSE LET bad == {k \in 1..Len(keys) :
                     \E i \in 1..Len(sleep_data) : keys[k] \notin DOMAIN sleep_data[i]}
       IN  IF bad = {} THEN ""
           ELSE keys[CHOOSE k \in bad : \A j \in bad : k <= j]

\* health_agent.py 497-520
SleepAnalysis(sleep_data, n, total, deep, rem) ==
  Ok("Sleep Analysis (last " \o ToString(n) \o " days):\n\n"
     \o "Average Total Sleep: " \o FmtTenths(RoundAvg(total, n)) \o " hours\n"
     \o "Average Deep Sleep: " \o FmtTenths(RoundAvg(deep, n)) \o " hours\n"
     \o "Average REM Sleep: " \o FmtTenths(RoundAvg(rem, n)) \o " hours\n\n"
     \o (IF total < 70 * n
           THEN "Your average sleep duration is below the recommended 7-9 hours."
         ELSE IF deep < 15 * n
           THEN "Your deep sleep appears to be lower than optimal."
         ELSE "Your overall sleep patterns look good."))

SleepKeys == <<"totalHours", "deepSleepHours", "remSleepHours">>

\* Faulty variant of analyze_sleep: the empty list is not tested, and the
\* averages divide by its length.
analyze_sleep_unguarded(sleep_data) ==
  IF Len(sleep_data) = 0
    THEN Raise("division by zero")
  ELSE IF SleepFirstMissing(sleep_data, SleepKeys) # ""
    THEN KeyError(SleepFirstMissing(sleep_data, SleepKeys))
  ELSE SleepAnalysis(sleep_data, Len(sleep_data),
                     SumField(sleep_data, "totalHours"),
                     SumField(sleep_data, "deepSleepHours"),
                     SumField(sleep_data, "remSleepHours"))

analyze_sleep(sleep_data) ==
  IF Len(sleep_data) = 0
    THEN Ok("No sleep data available for analysis.")
  ELSE IF SleepFirstMissing(sleep_data, SleepKeys) # ""
    THEN KeyError(SleepFirstMissing(sleep_data, SleepKeys))
  ELSE SleepAnalysis(sleep_data, Len(sleep_data),
                     SumField(sleep_data, "totalHours"),
                     SumField(sleep_data, "deepSleepHours"),
                     SumField(sleep_data, "remSleepHours"))

(***************************************************************************)
(* float(s) for the value texts of the model's datasets: digits with an    *)
(* optional fraction parse to the fraction num / den, and the other texts  *)
(* of the datasets ("N/A", "abc", "") are a ValueError.                    *)
(***************************************************************************)
DigitValue ==
  [c \in {"0", "1", "2", "3", "4", "5", "6", "7", "8", "9"} |->
     CASE c = "0" -> 0 [] c = "1" -> 1 [] c = "2" -> 2 [] c = "3" -> 3
       [] c = "4" -> 4 [] c = "5" -> 5 [] c = "6" -> 6 [] c = "7" -> 7
       [] c = "8" -> 8 [] c = "9" -> 9]

IsDigits(s) == \A i \in 1..Len(s) : SubSeq(s, i, i) \in DOMAIN DigitValue

RECURSIVE DigitsToInt(_)
DigitsToInt(s) ==
  IF Len(s) = 0 THEN 0
  ELSE 10 * DigitsToInt(SubSeq(s, 1, Len(s) - 1)) + DigitValue[SubSeq(s, Len(s), Len(s))]

RECURSIVE Pow10(_)
Pow10(k) == IF k = 0 THEN 1 ELSE 10 * Pow10(k - 1)

ParseUnsigned(s) ==
  LET dots == {i \in 1..Len(s) : SubSeq(s, i, i) = "."}
  IN  IF dots = {}
        THEN IF Len(s) > 0 /\ IsDigits(s)
               THEN [ok |-> TRUE, num |-> DigitsToInt(s), den |-> 1]
               ELSE [ok |-> FALSE, num |-> 0, den |-> 1]
      ELSE
        LET d == CHOOSE i \in dots : \A j \in dots : i <= j
            ip == SubSeq(s, 1, d - 1)
            fp == SubSeq(s, d + 1, Len(s))
        IN  IF IsDigits(ip) /\ IsDigits(fp) /\ Len(ip) + Len(fp) > 0
              THEN [ok |-> TRUE,
                    num |-> DigitsToInt(ip) * Pow10(Len(fp)) + DigitsToInt(fp),
                    den |-> Pow10(Len(fp))]
              ELSE [ok |-> FALSE, num |-> 0, den |-> 1]

ParseFloat(s) == ParseUnsigned(s)

\* str(e) of the ValueError float(s) raises
ValueError(s) == Raise("could not convert string to float: '" \o s \o "'")

(***************************************************************************)
(* Recommendation synthesizer.                                             *)
(***************************************************************************)
\* health_agent.py 535-570
BloodRecommendations(blood_tests) ==
  IF Len(blood_tests) = 0 THEN ""
  ELSE
    LET latest_test == blood_tests[1]
        results == Get(latest_test, "results", <<>>)
        glucose == ODGet(results, "glucose", EmptyDict)
        chol_total == ODGet(results, "cholesterolTotal", EmptyDict)
        chol_ldl == ODGet(results, "cholesterolLDL", EmptyDict)
        triglycerides == ODGet(results, "triglycerides", EmptyDict)
        vit_d == ODGet(results, "vitaminD", EmptyDict)
    IN  (IF StatusIs(glucose, "elevated")
           THEN "1. Blood Sugar Management:\n" ELSE "")
        \o (IF StatusIs(chol_total, "elevated") \/ StatusIs(chol_ldl, "elevated")
               \/ StatusIs(triglycerides, "elevated")
              THEN "2. Cholesterol Management:\n" ELSE "")
        \o (IF StatusIs(vit_d, "deficient")
              THEN "3. Vitamin D Improvement:\n" ELSE "")

\* Faulty variant of VitalsRecommendations: the last record of the list is
\* read in place of the first one.
VitalsRecommendationsOnLast(vitals) ==
  IF Len(vitals) = 0 THEN ""
  ELSE
    LET latest_vitals == vitals[Len(vitals)]
        bp == Get(latest_vitals, "bloodPressure", EmptyDict)
    IN  IF StatusIs(bp, "elevated") THEN "4. Blood Pressure Management:\n" ELSE ""

\* health_agent.py 573-584
VitalsRecommendations(vitals) ==
  IF Len(vitals) = 0 THEN ""
  ELSE
    LET latest_vitals == vitals[1]
        bp == Get(latest_vitals, "bloodPressure", EmptyDict)
    IN  IF StatusIs(bp, "elevated") THEN "4. Blood Pressure Management:\n" ELSE ""

\* Faulty variant of generate_health_recommendations: the general block is
\* written before the sleep block.
RecommendationsGeneralBeforeSleep(health_data) ==
  LET blood_tests == Get(health_data, "bloodTests", <<>>)
      vitals == Get(health_data, "vitals", <<>>)
      metrics == Get(health_data, "healthMetrics", EmptyDict)
      sleep_data == Get(metrics, "sleepData", <<>>)
  IN
  IF SleepFirstMissing(sleep_data, <<"totalHours">>) # ""
    THEN KeyError("totalHours")
  ELSE
    Ok("Personalized Health Recommendations:\n\n"
       \o BloodRecommendations(blood_tests)
       \o VitalsRecommendations(vitals)
       \o "General Health Maintenance:\n"
       \o (IF Len(sleep_data) > 0
              /\ SumField(sleep_data, "totalHours") < 70 * Len(sleep_data)
             THEN "5. Sleep Improvement:\n" ELSE ""))

\* Faulty variant of generate_health_recommendations: an average of exactly
\* 7.0 hours gives the sleep block.
RecommendationsSleepInclusive(health_data) ==
  LET blood_tests == Get(health_data, "bloodTests", <<>>)
      vitals == Get(health_data, "vitals", <<>>)
      metrics == Get(health_data, "healthMetrics", EmptyDict)
      sleep_data == Get(metrics, "sleepData", <<>>)
  IN
  IF SleepFirstMissing(sleep_data, <<"totalHours">>) # ""
    THEN KeyError("totalHours")
  ELSE
    Ok("Personalized Health Recommendations:\n\n"
       \o BloodRecommendations(blood_tests)
       \o VitalsRecommendations(vitals)
       \o (IF Len(sleep_data) > 0
              /\ SumField(sleep_data, "totalHours") <= 70 * Len(sleep_data)
             THEN "5. Sleep Improvement:\n" ELSE "")
       \o "General Health Maintenance:\n")

generate_health_recommendations(health_data) ==
  LET blood_tests == Get(health_data, "bloodTests", <<>>)
      vitals == Get(health_data, "vitals", <<>>)
      metrics == Get(health_data, "healthMetrics", EmptyDict)
      sleep_data == Get(metrics, "sleepData", <<>>)
  IN
  IF SleepFirstMissing(sleep_data, <<"totalHours">>) # ""
    THEN KeyError("totalHours")
  ELSE
    Ok("Personalized Health Recommendations:\n\n"
       \o BloodRecommendations(blood_tests)
       \o VitalsRecommendations(vitals)
       \o (IF Len(sleep_data) > 0
              /\ SumField(sleep_data, "totalHours") < 70 * Len(sleep_data)
             THEN "5. Sleep Improvement:\n" ELSE "")
       \o "General Health Maintenance:\n")

(***************************************************************************)
(* Cholesterol analyzer.                                                   *)
(***************************************************************************)
\* The three lines every metric section starts with (640-644 and alike).
MetricLines(label, d, unit, range) ==
  label \o ": " \o Get(d, "value", "N/A") \o " " \o Get(d, "unit", unit) \o " "
  \o "(Status: " \o Get(d, "status", "unknown") \o ")\n"
  \o "Normal Range: " \o Get(d, "normalRange", range) \o "\n\n"

\* Faulty variant of CholTotalSection: the paragraph of the elevated status
\* is written for every status but "normal".
CholTotalSectionAnyAbnormal(chol_total) ==
  IF ~Truthy(chol_total) THEN ""
  ELSE MetricLines("Total Cholesterol", chol_total, "mg/dL", "<200 mg/dL")
       \o (IF StatusIs(chol_total, "normal")
             THEN "Your total cholesterol is within normal range, which is good for heart health.\n\n"
           ELSE "Your total cholesterol is elevated.\n\n")

\* health_agent.py 641-651
CholTotalSection(chol_total) ==
  IF ~Truthy(chol_total) THEN ""
  ELSE MetricLines("Total Cholesterol", chol_total, "mg/dL", "<200 mg/dL")
       \o (IF StatusIs(chol_total, "elevated")
             THEN "Your total cholesterol is elevated.\n\n"
           ELSE IF StatusIs(chol_total, "normal")
             THEN "Your total cholesterol is within normal range, which is good for heart health.\n\n"
           ELSE "")

\* health_agent.py 654-665
CholLdlSection(chol_ldl) ==
  IF ~Truthy(chol_ldl) THEN ""
  ELSE MetricLines("LDL (Bad) Cholesterol", chol_ldl, "mg/dL", "<100 mg/dL")
       \o (IF StatusIs(chol_ldl, "elevated")
             THEN "Your LDL cholesterol is elevated.\n\n"
           ELSE IF StatusIs(chol_ldl, "normal")
             THEN "Your LDL cholesterol is within normal range, which is good for cardiovascular health.\n\n"
           ELSE "")

\* health_agent.py 668-678
CholHdlSection(chol_hdl) ==
  IF ~Truthy(chol_hdl) THEN ""
  ELSE MetricLines("HDL (Good) Cholesterol", chol_hdl, "mg/dL",
                   ">40 mg/dL for men, >50 mg/dL for women")
       \o (IF StatusIs(chol_hdl, "low")
             THEN "Your HDL cholesterol is lower than optimal.\n\n"
           ELSE IF StatusIs(chol_hdl, "normal") \/ StatusIs(chol_hdl, "optimal")
             THEN "Your HDL cholesterol is at a good level, which helps protect against heart disease.\n\n"
           ELSE "")

\* health_agent.py 681-692
TriglyceridesSection(triglycerides) ==
  IF ~Truthy(triglycerides) THEN ""
  ELSE MetricLines("Triglycerides", triglycerides, "mg/dL", "<150 mg/dL")
       \o (IF StatusIs(triglycerides, "elevated")
             THEN "Your triglycerides are elevated.\n\n"
           ELSE IF StatusIs(triglycerides, "normal")
             THEN "Your triglyceride levels are within normal range, which is good for heart health.\n\n"
           ELSE "")

\* Faulty variant of RatioTier: the tier is chosen on the ratio rounded to
\* one decimal, as it is printed, the cutoffs included in the tier below.
RatioTierOnRounded(total, hdl) ==
  IF RoundAvg(10 * total.num * hdl.den, total.den * hdl.num) <= 35
    THEN "This ratio is optimal (below 3.5), indicating lower cardiovascular risk.\n\n"
  ELSE IF RoundAvg(10 * total.num * hdl.den, total.den * hdl.num) <= 50
    THEN "This ratio is good (below 5), but there's room for improvement.\n\n"
  ELSE "This ratio is higher than optimal (above 5), indicating increased cardiovascular risk.\n\n"

\* Faulty variant of RatioTier: a ratio on a cutoff falls in the tier below.
RatioTierInclusive(total, hdl) ==
  IF 10 * total.num * hdl.den <= 35 * total.den * hdl.num
    THEN "This ratio is optimal (below 3.5), indicating lower cardiovascular risk.\n\n"
  ELSE IF total.num * hdl.den <= 5 * total.den * hdl.num
    THEN "This ratio is good (below 5), but there's room for improvement.\n\n"
  ELSE "This ratio is higher than optimal (above 5), indicating increased cardiovascular risk.\n\n"

\* health_agent.py 702-707: the tier sentence of ratio = (tn/td) / (hn/hd),
\* hn > 0
RatioTier(total, hdl) ==
  IF 10 * total.num * hdl.den < 35 * total.den * hdl.num
    THEN "This ratio is optimal (below 3.5), indicating lower cardiovascular risk.\n\n"
  ELSE IF total.num * hdl.den < 5 * total.den * hdl.num
    THEN "This ratio is good (below 5), but there's room for improvement.\n\n"
  ELSE "This ratio is higher than optimal (above 5), indicating increased cardiovascular risk.\n\n"

\* Faulty variant of CholRatioSection: the label of the ratio line is written
\* before the values are converted and divided.
CholRatioSectionLabelFirst(chol_total, chol_hdl) ==
  IF Truthy(chol_total) /\ Truthy(chol_hdl)
     /\ Get(chol_total, "value", "") # "" /\ Get(chol_hdl, "value", "") # ""
    THEN
      LET total_val == ParseFloat(chol_total["value"])
          hdl_val == ParseFloat(chol_hdl["value"])
      IN  IF ~total_val.ok \/ ~hdl_val.ok \/ hdl_val.num = 0
            THEN "Total Cholesterol to HDL Ratio: "
          ELSE "Total Cholesterol to HDL Ratio: "
               \o FmtTenths(RoundAvg(10 * total_val.num * hdl_val.den,
                                     total_val.den * hdl_val.num))
               \o "\n" \o RatioTier(total_val, hdl_val)
    ELSE ""

\* health_agent.py 695-709
CholRatioSection(chol_total, chol_hdl) ==
  IF Truthy(chol_total) /\ Truthy(chol_hdl)
     /\ Get(chol_total, "value", "") # "" /\ Get(chol_hdl, "value", "") # ""
    THEN
      LET total_val == ParseFloat(chol_total["value"])
          hdl_val == ParseFloat(chol_hdl["value"])
      IN  IF ~total_val.ok \/ ~hdl_val.ok \/ hdl_val.num = 0 THEN ""
          ELSE "Total Cholesterol to HDL Ratio: "
               \o FmtTenths(RoundAvg(10 * total_val.num * hdl_val.den,
                                     total_val.den * hdl_val.num))
               \o "\n" \o RatioTier(total_val, hdl_val)
    ELSE ""

analyze_cholesterol(blood_tests) ==
  IF Len(blood_tests) = 0
    THEN Ok("No blood test data available for cholesterol analysis.")
  ELSE
    LET latest_test == blood_tests[1]
        results == Get(latest_test, "results", <<>>)
        chol_total == ODGet(results, "cholesterolTotal", EmptyDict)
        chol_ldl == ODGet(results, "cholesterolLDL", EmptyDict)
        chol_hdl == ODGet(results, "cholesterolHDL", EmptyDict)
        triglycerides == ODGet(results, "triglycerides", EmptyDict)
    IN
    IF ~(Truthy(chol_total) \/ Truthy(chol_ldl) \/ Truthy(chol_hdl)
         \/ Truthy(triglycerides))
      THEN Ok("No cholesterol data found in your blood test results.")
    ELSE IF "date" \notin DOMAIN latest_test THEN KeyError("date")
    ELSE
      Ok("Cholesterol Analysis (from " \o latest_test["date"] \o "):\n\n"
         \o CholTotalSection(chol_total)
         \o CholLdlSection(chol_ldl)
         \o CholHdlSection(chol_hdl)
         \o TriglyceridesSection(triglycerides)
         \o CholRatioSection(chol_total, chol_hdl)
         \o "General recommendations for cholesterol management:\n")

(***************************************************************************)
(* Glucose analyzer.                                                       *)
(***************************************************************************)
\* float(d.get('value', 0)) < limit, for d.get('value') truthy; limit is
\* ln / ld
ValueBelow(d, ln, ld) ==
  LET v == ParseFloat(d["value"]) IN v.num * ld < ln * v.den

\* health_agent.py 756-772
GlucoseNarrative(glucose) ==
  IF StatusIs(glucose, "elevated")
    THEN "Your glucose level is elevated.\n\n"
         \o (IF Get(glucose, "value", "") # "" /\ ValueBelow(glucose, 126, 1)
               THEN "Your level suggests prediabetes.\n\n"
               ELSE "Your level suggests possible diabetes.\n\n")
  ELSE IF StatusIs(glucose, "normal")
    THEN "Your glucose level is within normal range, indicating healthy blood sugar control.\n\n"
  ELSE IF StatusIs(glucose, "low")
    THEN "Your glucose level is lower than normal.\n\n"
  ELSE ""

\* health_agent.py 780-788
A1cNarrative(a1c) ==
  IF StatusIs(a1c, "elevated")
    THEN "Your HbA1c is elevated. "
         \o (IF Get(a1c, "value", "") # "" /\ ValueBelow(a1c, 65, 10)
               THEN "A level between 5.7-6.4% suggests prediabetes.\n\n"
               ELSE "A level of 6.5% or higher suggests diabetes.\n\n")
  ELSE IF StatusIs(a1c, "normal")
    THEN "Your HbA1c is within normal range, indicating good blood sugar control over the past 2-3 months.\n\n"
  ELSE ""

\* Whether the float() of line 761 or 783 raises: the status is "elevated"
\* and the value is a non-empty text that is no number.
FloatRaises(d) ==
  StatusIs(d, "elevated") /\ Get(d, "value", "") # ""
  /\ ~ParseFloat(d["value"]).ok

analyze_glucose(blood_tests) ==
  IF Len(blood_tests) = 0
    THEN Ok("No blood test data available for glucose analysis.")
  ELSE
    LET latest_test == blood_tests[1]
        results == Get(latest_test, "results", <<>>)
        glucose == ODGet(results, "glucose", EmptyDict)
        a1c == ODGet(results, "hba1c", EmptyDict)
    IN
    IF ~(Truthy(glucose) \/ Truthy(a1c))
      THEN Ok("No glucose data found in your blood test results.")
    ELSE IF "date" \notin DOMAIN latest_test THEN KeyError("date")
    ELSE IF Truthy(glucose) /\ FloatRaises(glucose)
      THEN ValueError(glucose["value"])
    ELSE IF Truthy(a1c) /\ FloatRaises(a1c)
      THEN ValueError(a1c["value"])
    ELSE
      Ok("Blood Sugar Analysis (from " \o latest_test["date"] \o "):\n\n"
         \o (IF Truthy(glucose)
               THEN MetricLines("Fasting Glucose", glucose, "mg/dL", "70-99 mg/dL")
                    \o GlucoseNarrative(glucose)
               ELSE "")
         \o (IF Truthy(a1c)
               THEN MetricLines("HbA1c", a1c, "%", "<5.7%") \o A1cNarrative(a1c)
               ELSE "")
         \o "General recommendations for blood sugar management:\n")

(***************************************************************************)
(* Vitamin and mineral analyzer.                                           *)
(***************************************************************************)
\* health_agent.py 838-848
VitaminDNarrative(vitamin_d) ==
  IF StatusIs(vitamin_d, "deficient")
    THEN "You have vitamin D deficiency.\n\n"
         \o "Consider more sun exposure (15-30 minutes several times weekly).\n\n"
  ELSE IF StatusIs(vitamin_d, "insufficient")
    THEN "Your vitamin D level is insufficient (suboptimal).\n\n"
  ELSE IF StatusIs(vitamin_d, "normal") \/ StatusIs(vitamin_d, "optimal")
    THEN "Your vitamin D level is adequate, which is good for bone health and immune function.\n\n"
  ELSE ""

analyze_vitamins(blood_tests) ==
  IF Len(blood_tests) = 0
    THEN Ok("No blood test data available for vitamin and mineral analysis.")
  ELSE
    LET latest_test == blood_tests[1]
        results == Get(latest_test, "results", <<>>)
        vitamin_d == ODGet(results, "vitaminD", EmptyDict)
        vitamin_b12 == ODGet(results, "vitaminB12", EmptyDict)
        iron == ODGet(results, "iron", EmptyDict)
        ferritin == ODGet(results, "ferritin", EmptyDict)
        calcium == ODGet(results, "calcium", EmptyDict)
        magnesium == ODGet(results, "magnesium", EmptyDict)
    IN
    IF ~(Truthy(vitamin_d) \/ Truthy(vitamin_b12) \/ Truthy(iron)
         \/ Truthy(ferritin) \/ Truthy(calcium) \/ Truthy(magnesium))
      THEN Ok("No vitamin or mineral data found in your blood test results.")
    ELSE IF "date" \notin DOMAIN latest_test THEN KeyError("date")
    ELSE
      Ok("Vitamin and Mineral Analysis (from " \o latest_test["date"] \o "):\n\n"
         \o (IF Truthy(vitamin_d)
               THEN MetricLines("Vitamin D", vitamin_d, "ng/mL", "30-80 ng/mL")
                    \o VitaminDNarrative(vitamin_d)
               ELSE ""))

(***************************************************************************)
(* Intent router.                                                          *)
(***************************************************************************)
CholesterolTerms == <<"cholesterol", "cholestrol", "ldl", "hdl", "triglycerides", "lipids">>
GlucoseTerms == <<"glucose", "sugar", "diabetes", "a1c">>
VitaminTerms == <<"vitamin", "minerals", "deficiency">>
BloodTestTerms == <<"blood test", "blood work", "lab">>
VitalsTerms == <<"vital", "blood pressure", "heart rate", "temperature">>
RecommendTerms == <<"recommend", "advice", "suggestion", "should i">>
OverviewTerms == <<"health status", "health overview", "my health", "summary">>
SleepTerms == <<"sleep", "rest", "insomnia">>

DefaultText ==
  "I'm your Health AI Assistant. I can help analyze your blood tests, vital signs, sleep patterns, and provide health recommendations. What would you like to know about your health?"

\* A handler's result with the analysis_type of its metadata.
Typed(r, analysis_type) ==
  [raised |-> r.raised, text |-> r.text, kind |-> analysis_type]

\* health_agent.py 318-322: both analyses run before the text is built
Overview(health_data) ==
  LET blood_analysis == analyze_blood_test(Get(health_data, "bloodTests", <<>>))
      vitals_analysis == analyze_vitals(Get(health_data, "vitals", <<>>))
  IN  IF blood_analysis.raised THEN blood_analysis
      ELSE IF vitals_analysis.raised THEN vitals_analysis
      ELSE Ok("Health Overview:\n\n" \o blood_analysis.text \o "\n\n"
              \o vitals_analysis.text)

\* Faulty variant of RouteKind: the general blood-test terms are tested
\* before the specific ones.
RouteKindGeneralFirst(message_lower) ==
  IF AnyTermIn(BloodTestTerms, message_lower) THEN "blood_tests"
  ELSE IF AnyTermIn(CholesterolTerms, message_lower) THEN "cholesterol"
  ELSE IF AnyTermIn(GlucoseTerms, message_lower) THEN "glucose"
  ELSE IF AnyTermIn(VitaminTerms, message_lower) THEN "vitamins"
  ELSE IF AnyTermIn(VitalsTerms, message_lower) THEN "vitals"
  ELSE IF AnyTermIn(RecommendTerms, message_lower) THEN "recommendations"
  ELSE IF AnyTermIn(OverviewTerms, message_lower) THEN "overview"
  ELSE IF AnyTermIn(SleepTerms, message_lower) THEN "sleep"
  ELSE "general"

\* health_agent.py 294-332: the analysis_type of the first keyword group
\* with a term in the lower-cased message, "general" when there is none
RouteKind(message_lower) ==
  IF AnyTermIn(CholesterolTerms, message_lower) THEN "cholesterol"
  ELSE IF AnyTermIn(GlucoseTerms, message_lower) THEN "glucose"
  ELSE IF AnyTermIn(VitaminTerms, message_lower) THEN "vitamins"
  ELSE IF AnyTermIn(BloodTestTerms, message_lower) THEN "blood_tests"
  ELSE IF AnyTermIn(VitalsTerms, message_lower) THEN "vitals"
  ELSE IF AnyTermIn(RecommendTerms, message_lower) THEN "recommendations"
  ELSE IF AnyTermIn(OverviewTerms, message_lower) THEN "overview"
  ELSE IF AnyTermIn(SleepTerms, message_lower) THEN "sleep"
  ELSE "general"

\* health_agent.py 295-331: the handler of each branch
Handle(kind, health_data) ==
  CASE kind = "cholesterol" ->
         analyze_cholesterol(Get(health_data, "bloodTests", <<>>))
    [] kind = "glucose" ->
         analyze_glucose(Get(health_data, "bloodTests", <<>>))
    [] kind = "vitamins" ->
         analyze_vitamins(Get(health_data, "bloodTests", <<>>))
    [] kind = "blood_tests" ->
         analyze_blood_test(Get(health_data, "bloodTests", <<>>))
    [] kind = "vitals" ->
         analyze_vitals(Get(health_data, "vitals", <<>>))
    [] kind = "recommendations" ->
         generate_health_recommendations(health_data)
    [] kind = "overview" -> Overview(health_data)
    [] kind = "sleep" ->
         analyze_sleep(Get(Get(health_data, "healthMetrics", EmptyDict),
                           "sleepData", <<>>))
    [] OTHER -> Ok(DefaultText)

RouteTo(kind, health_data) == Typed(Handle(kind, health_data), kind)

generate_rule_based_response(message_text, health_data) ==
  RouteTo(RouteKind(Lower(message_text)), health_data)

(***************************************************************************)
(* The agent.  `hist` is self.context.history, `client` tells whether      *)
(* self.sdk_client is set, `agent_id` is "" for None.  The outcome of a    *)
(* platform call is Raise(..) or Ok(reply), the reply "" when the platform *)
(* returns nothing.  Every call made is logged as [op, session_id, raised, *)
(* ok], ok telling a usable answer.                                        *)
(***************************************************************************)
AgentName == "Health AI Assistant Yash Testing"
EndedText == "Is there anything else I can help you with regarding your health?"
EmptyMessageText ==
  "I'm here to help with your health questions. What would you like to know?"
ClosingTerms == <<"goodbye", "thank you", "thanks", "bye">>
HistoryWindow == 10

Call(op, session_id, outcome) ==
  [op |-> op, session_id |-> session_id, raised |-> outcome.raised,
   ok |-> ~outcome.raised /\ outcome.text # ""]

\* Faulty variant of ConversationHistory: every message of the history is
\* joined.
ConversationHistoryWhole(hist) ==
  JoinLines([i \in 1..Len(hist) |-> hist[i].sender \o ": " \o hist[i].content])

\* health_agent.py 342
ConversationHistory(hist) ==
  JoinLines(LastN([i \in 1..Len(hist) |-> hist[i].sender \o ": " \o hist[i].content],
                  HistoryWindow))

\* health_agent.py 366-368
ChatStateHeuristic(hist) ==
  IF AnyTermIn(ClosingTerms, Lower(ConversationHistory(hist)))
    THEN "[CONVERSATION_ENDS]" ELSE "[CONTINUE]"

llm_call_to_check_chat_state(hist, client, outcome) ==
  IF Len(hist) = 0 THEN [content |-> "[CONTINUE]", calls |-> <<>>]
  ELSE IF client
    THEN [content |->
            IF ~outcome.raised /\ outcome.text # ""
              THEN IF Contains(outcome.text, "[CONVERSATION_ENDS]")
                     THEN "[CONVERSATION_ENDS]" ELSE "[CONTINUE]"
              ELSE ChatStateHeuristic(hist),
          calls |-> <<Call("send_message", "check_chat_state", outcome)>>]
  ELSE [content |-> ChatStateHeuristic(hist), calls |-> <<>>]

\* Faulty variant of PlatformCalls: only the agent id is tested.
PlatformCallsWithoutClientTest(client, agent_id, env) ==
  IF agent_id # ""
    THEN IF env.start.raised
           THEN <<Call("start", agent_id, env.start)>>
           ELSE <<Call("start", agent_id, env.start),
                  Call("send_message", "session_user", env.send)>>
  ELSE <<>>

\* Faulty variant of PlatformCalls: a message that got no reply is sent again.
PlatformCallsRetrying(client, agent_id, env) ==
  IF client /\ agent_id # ""
    THEN IF env.start.raised
           THEN <<Call("start", agent_id, env.start)>>
         ELSE IF env.send.raised \/ env.send.text = ""
           THEN <<Call("start", agent_id, env.start),
                  Call("send_message", "session_user", env.send),
                  Call("send_message", "session_user", env.send)>>
         ELSE <<Call("start", agent_id, env.start),
                Call("send_message", "session_user", env.send)>>
  ELSE <<>>

\* health_agent.py 254-275: the calls made to the platform for the user's
\* message
PlatformCalls(client, agent_id, env) ==
  IF client /\ agent_id # ""
    THEN IF env.start.raised
           THEN <<Call("start", agent_id, env.start)>>
           ELSE <<Call("start", agent_id, env.start),
                  Call("send_message", "session_user", env.send)>>
  ELSE <<>>

\* Faulty variant of PlatformAnswered: an empty reply counts as an answer.
PlatformAnsweredAnyReply(client, agent_id, env) ==
  /\ client /\ agent_id # ""
  /\ ~env.start.raised
  /\ ~env.send.raised

\* health_agent.py 272: the platform was asked and its reply is not empty
PlatformAnswered(client, agent_id, env) ==
  /\ client /\ agent_id # ""
  /\ ~env.start.raised
  /\ ~env.send.raised /\ env.send.text # ""

\* Faulty variant of RespondToMessage: an exception of start or send_message
\* is not caught.
RespondToMessageUncaught(content, health_data, client, agent_id, env) ==
  [resp |-> IF client /\ agent_id # "" /\ env.start.raised
              THEN Typed(env.start, "pinai_sdk")
            ELSE IF client /\ agent_id # "" /\ env.send.raised
              THEN Typed(env.send, "pinai_sdk")
            ELSE IF PlatformAnswered(client, agent_id, env)
              THEN Typed(Ok(env.send.text), "pinai_sdk")
            ELSE generate_rule_based_response(content, health_data),
   calls |-> PlatformCalls(client, agent_id, env)]

\* Faulty variant of RespondToMessage: the default text is the answer
\* whenever the platform was asked and gave nothing.
RespondToMessageDefaultOnFailure(content, health_data, client, agent_id, env) ==
  [resp |-> IF PlatformAnswered(client, agent_id, env)
              THEN Typed(Ok(env.send.text), "pinai_sdk")
            ELSE IF client /\ agent_id # ""
              THEN Typed(Ok(DefaultText), "general")
            ELSE generate_rule_based_response(content, health_data),
   calls |-> PlatformCalls(client, agent_id, env)]

\* health_agent.py 253-278: the platform first, the rules when it gave nothing
RespondToMessage(content, health_data, client, agent_id, env) ==
  [resp |-> IF PlatformAnswered(client, agent_id, env)
              THEN Typed(Ok(env.send.text), "pinai_sdk")
              ELSE generate_rule_based_response(content, health_data),
   calls |-> PlatformCalls(client, agent_id, env)]

\* Faulty variant of RespondUnlessEnded: the answer of the chat-state check
\* is not read.
RespondIgnoringChatState(chat_state, r) ==
  [resp |-> r.resp, ends |-> FALSE, calls |-> chat_state.calls \o r.calls]

\* health_agent.py 248-251 and 278, chat_state being the answer of the check
RespondUnlessEnded(chat_state, r) ==
  IF chat_state.content = "[CONVERSATION_ENDS]"
    THEN [resp |-> Typed(Ok(EndedText), "ended"), ends |-> TRUE,
          calls |-> chat_state.calls]
    ELSE [resp |-> r.resp, ends |-> FALSE, calls |-> chat_state.calls \o r.calls]

\* The result carries the response, whether task_complete was set, and the
\* platform calls made.
generate_response(content, health_data, hist, client, agent_id, env) ==
  IF content = ""
    THEN [resp |-> Typed(Ok(EmptyMessageText), "empty"), ends |-> FALSE,
          calls |-> <<>>]
    ELSE RespondUnlessEnded(
           llm_call_to_check_chat_state(hist, client, env.pre),
           RespondToMessage(content, health_data, client, agent_id, env))

UserMessage(content) == [role |-> "user", sender |-> "user", content |-> content]
AssistantMessage(content) ==
  [role |-> "assistant", sender |-> AgentName, content |-> content]

\* health_agent.py 176-194: the response is appended and the chat state
\* checked again, unless generate_response raised
\* Faulty variant of FinishMessage: the user message of a request that
\* failed is taken back from the history.
FinishMessageRollingBack(hist1, complete, g, chat_state) ==
  IF g.resp.raised
    THEN [raised |-> TRUE, text |-> g.resp.text, kind |-> g.resp.kind,
          history |-> SubSeq(hist1, 1, Len(hist1) - 1),
          task_complete |-> complete \/ g.ends,
          calls |-> g.calls]
    ELSE [raised |-> FALSE, text |-> g.resp.text, kind |-> g.resp.kind,
          history |-> Append(hist1, AssistantMessage(g.resp.text)),
          task_complete |-> complete \/ g.ends
                            \/ chat_state.content = "[CONVERSATION_ENDS]",
          calls |-> g.calls \o chat_state.calls]

FinishMessage(hist1, complete, g, chat_state) ==
  IF g.resp.raised
    THEN [raised |-> TRUE, text |-> g.resp.text, kind |-> g.resp.kind,
          history |-> hist1, task_complete |-> complete \/ g.ends,
          calls |-> g.calls]
    ELSE [raised |-> FALSE, text |-> g.resp.text, kind |-> g.resp.kind,
          history |-> Append(hist1, AssistantMessage(g.resp.text)),
          task_complete |-> complete \/ g.ends
                            \/ chat_state.content = "[CONVERSATION_ENDS]",
          calls |-> g.calls \o chat_state.calls]

\* The chat-state check of line 190, on the history with the response.
PostCheck(hist1, g, client, outcome) ==
  IF g.resp.raised THEN [content |-> "", calls |-> <<>>]
  ELSE llm_call_to_check_chat_state(Append(hist1, AssistantMessage(g.resp.text)),
                                    client, outcome)

AfterResponse(hist1, complete, client, env, g) ==
  FinishMessage(hist1, complete, g, PostCheck(hist1, g, client, env.post))

\* on_message for a message that carries its health data: the outcome and
\* the agent's state after it.
on_message(content, health_data, hist, complete, client, agent_id, env) ==
  AfterResponse(Append(hist, UserMessage(content)), complete, client, env,
                generate_response(content, health_data,
                                  Append(hist, UserMessage(content)),
                                  client, agent_id, env))

(***************************************************************************)
(* Datasets: contents of data/sample_health_data.json.                     *)
(***************************************************************************)
Result(value, unit, range, status) ==
  [value |-> value, unit |-> unit, normalRange |-> range, status |-> status]
Item(name, data) == [name |-> name, data |-> data]

ElevatedTest ==
  [date |-> "2023-04-15",
   results |-> <<Item("glucose", Result("110", "mg/dL", "70-99", "elevated")),
                 Item("hba1c", Result("5.8", "%", "<5.7", "elevated")),
                 Item("cholesterolTotal", Result("240", "mg/dL", "<200", "elevated")),
                 Item("cholesterolLDL", Result("160", "mg/dL", "<100", "elevated")),
                 Item("cholesterolHDL", Result("48", "mg/dL", ">40", "normal")),
                 Item("triglycerides", Result("140", "mg/dL", "<150", "normal")),
                 Item("vitaminD", Result("18", "ng/mL", "30-80", "deficient"))>>]

NormalTest ==
  [date |-> "2022-10-02",
   results |-> <<Item("glucose", Result("90", "mg/dL", "70-99", "normal")),
                 Item("cholesterolTotal", Result("175", "mg/dL", "<200", "normal")),
                 Item("cholesterolHDL", Result("50", "mg/dL", ">40", "optimal")),
                 Item("vitaminD", Result("45", "ng/mL", "30-80", "normal"))>>]

\* An abnormal result that lacks its unit, and a glucose value that is no
\* number.
BrokenTest ==
  [date |-> "2023-06-01",
   results |-> <<Item("glucose", [value |-> "N/A", status |-> "elevated"])>>]

Vital(value, unit, status) == [value |-> value, unit |-> unit, status |-> status]

ElevatedVitals ==
  [date |-> "2023-04-15",
   bloodPressure |-> [systolic |-> 135, diastolic |-> 85, status |-> "elevated"],
   heartRate |-> Vital(72, "bpm", "normal"),
   oxygenSaturation |-> Vital(98, "%", "normal"),
   temperature |-> Vital(986, "F", "normal")]

NormalVitals ==
  [date |-> "2022-10-02",
   bloodPressure |-> [systolic |-> 118, diastolic |-> 76, status |-> "normal"],
   heartRate |-> Vital(64, "bpm", "normal"),
   oxygenSaturation |-> Vital(99, "%", "normal"),
   temperature |-> Vital(980, "F", "normal")]

\* A vitals record without its blood pressure.
BrokenVitals == [date |-> "2023-06-01", heartRate |-> Vital(72, "bpm", "normal")]

Day(total, deep, rem) ==
  [totalHours |-> total, deepSleepHours |-> deep, remSleepHours |-> rem]

ShortSleep == <<Day(60, 10, 15), Day(65, 15, 15), Day(70, 15, 20)>>
GoodSleep == <<Day(75, 20, 20), Day(80, 20, 15)>>
BrokenSleep == <<Day(70, 15, 20), [totalHours |-> 65]>>

\* A dataset is a dict: a list family is absent when its key is not in the
\* DOMAIN.
Dataset(blood_tests, vitals, sleep_data) ==
  [user |-> "Alex", bloodTests |-> blood_tests, vitals |-> vitals,
   healthMetrics |-> [sleepData |-> sleep_data]]

SampleData == Dataset(<<ElevatedTest, NormalTest>>, <<ElevatedVitals, NormalVitals>>, ShortSleep)
HealthyData == Dataset(<<NormalTest>>, <<NormalVitals>>, GoodSleep)
BrokenData == Dataset(<<BrokenTest>>, <<BrokenVitals>>, BrokenSleep)
EmptyData == Dataset(<<>>, <<>>, <<>>)
\* No bloodTests, vitals or healthMetrics key at all.
BareData == [user |-> "Alex"]

(***************************************************************************)
(* State.                                                                  *)
(***************************************************************************)
VARIABLES
  sdk_client,     \* whether self.sdk_client is a client (FALSE: None)
  agent_id,       \* self.agent_id, "" for None
  sessions,       \* self.sessions: session id -> [health_data]
  history,        \* self.context.history
  task_complete,  \* self.task_complete
  data_file,      \* the file at HEALTH_DATA_PATH: [exists, content]
  calls,          \* the platform calls of the last operation, in order
  last,           \* the last operation with what it was given and returned
  nreq            \* chat requests handled so far

vars == <<sdk_client, agent_id, sessions, history, task_complete, data_file,
          calls, last, nreq>>

agent == <<sdk_client, agent_id, sessions, history, task_complete>>

NoFile == [exists |-> FALSE, content |-> EmptyDict]
File(d) == [exists |-> TRUE, content |-> d]

Nothing ==
  [op |-> "none", request |-> EmptyDict, status |-> 0, raised |-> FALSE,
   body |-> "", kind |-> "", loaded |-> FALSE, reached_agent |-> FALSE,
   data |-> EmptyDict]

(***************************************************************************)
(* HealthAIAgent.__init__ (main.py 86 builds the one shared instance).     *)
(* api_key and env_agent_id are the environment variables, "" when unset;  *)
(* sdk_raises tells whether PINAIAgentSDK(...) raises; reg is what the     *)
(* platform answers to the registration.                                   *)
(***************************************************************************)
RegisterOutcomes == {"ok", "error", "exists_found", "exists_not_found", "exists_list_error"}

\* health_agent.py 96-155: the agent id and the calls made
register_agent(reg) ==
  CASE reg = "ok" ->
         [agent_id |-> "agent-1",
          calls |-> <<Call("register_agent", "", Ok("agent-1"))>>]
    [] reg = "error" ->
         [agent_id |-> "",
          calls |-> <<Call("register_agent", "", Raise("connection refused"))>>]
    [] reg = "exists_found" ->
         [agent_id |-> "agent-1",
          calls |-> <<Call("register_agent", "", Raise("already exists")),
                      Call("list_agents", "", Ok("agent-1"))>>]
    [] reg = "exists_not_found" ->
         [agent_id |-> "",
          calls |-> <<Call("register_agent", "", Raise("already exists")),
                      Call("list_agents", "", Ok("none"))>>]
    [] reg = "exists_list_error" ->
         [agent_id |-> "",
          calls |-> <<Call("register_agent", "", Raise("already exists")),
                      Call("list_agents", "", Raise("no such method")),
                      Call("register_agent", "", Raise("rejected"))>>]

\* health_agent.py 85-94
initialize_sdk_client(api_key, sdk_raises) == api_key # "" /\ ~sdk_raises

Construct(api_key, env_agent_id, sdk_raises, reg) ==
  LET client == initialize_sdk_client(api_key, sdk_raises)
      registered == IF env_agent_id = "" /\ client
                      THEN register_agent(reg)
                      ELSE [agent_id |-> env_agent_id, calls |-> <<>>]
  IN  /\ sdk_client = client
      /\ agent_id = registered.agent_id
      /\ calls = registered.calls
      /\ sessions = EmptyDict
      /\ history = <<>>
      /\ task_complete = FALSE

Init ==
  /\ \E api_key \in {"", "key"}, env_agent_id \in {"", "agent-1"},
        sdk_raises \in BOOLEAN, reg \in RegisterOutcomes :
       Construct(api_key, env_agent_id, sdk_raises, reg)
  /\ data_file = File(SampleData)
  /\ last = Nothing
  /\ nreq = 0

(***************************************************************************)
(* POST /api/chat (main.py 88-109).                                        *)
(***************************************************************************)
\* str(e) of an HTTPException: "status: detail" where Starlette defines
\* __str__, the empty text in the versions that do not.
HTTPExceptionStr(status_text, detail, with_str) ==
  IF with_str THEN status_text \o ": " \o detail ELSE ""

\* Faulty variant of StoreSession: the store keeps the entry of the last
\* session only.
StoreSessionEvicting(sess, session_id, health_data) ==
  [k \in {session_id} |-> [health_data |-> health_data]]

\* self.sessions[session_id] = {"health_data": health_data}
StoreSession(sess, session_id, health_data) ==
  [k \in DOMAIN sess \cup {session_id} |->
     IF k = session_id THEN [health_data |-> health_data] ELSE sess[k]]

\* health_agent.py 855-889: the outcome and the agent's state after it
WithSessions(r, sess) ==
  [raised |-> r.raised, text |-> r.text, kind |-> r.kind, sessions |-> sess,
   history |-> r.history, task_complete |-> r.task_complete, calls |-> r.calls]

process_message(message, health_data, session_id, sess, hist, complete, client, aid, env) ==
  WithSessions(on_message(message, health_data, hist, complete, client, aid, env),
               StoreSession(sess, session_id, health_data))

\* main.py 94-95 and 98: the request is refused before the agent is reached
Refused(request, status_text, detail, loaded) ==
  /\ \E with_str \in BOOLEAN :
       last' = [op |-> "chat", request |-> request, status |-> 500,
                raised |-> TRUE,
                body |-> HTTPExceptionStr(status_text, detail, with_str),
                kind |-> "", loaded |-> loaded, reached_agent |-> FALSE,
                data |-> EmptyDict]
  /\ calls' = <<>>
  /\ UNCHANGED <<sessions, history, task_complete>>

\* Faulty variant of Answered: an error of the agent is answered with the
\* default help text and status 200.
AnsweredDegraded(request, health_data, r) ==
  /\ last' = [op |-> "chat", request |-> request, status |-> 200,
              raised |-> FALSE,
              body |-> IF r.raised THEN DefaultText ELSE r.text,
              kind |-> r.kind, loaded |-> TRUE,
              reached_agent |-> TRUE, data |-> health_data]
  /\ calls' = r.calls
  /\ sessions' = r.sessions
  /\ history' = r.history
  /\ task_complete' = r.task_complete

\* main.py 101-109: the agent's answer, or status 500 with str(e)
Answered(request, health_data, r) ==
  /\ last' = [op |-> "chat", request |-> request,
              status |-> IF r.raised THEN 500 ELSE 200, raised |-> r.raised,
              body |-> r.text, kind |-> r.kind, loaded |-> TRUE,
              reached_agent |-> TRUE, data |-> health_data]
  /\ calls' = r.calls
  /\ sessions' = r.sessions
  /\ history' = r.history
  /\ task_complete' = r.task_complete

\* Faulty variant of chat: the message is not validated.
chat_unvalidated(request, env) ==
  IF ~data_file.exists
    THEN Refused(request, "500", "Failed to load health data", TRUE)
  ELSE Answered(request, data_file.content,
                process_message(Get(request, "message", ""), data_file.content,
                                Get(request, "session_id", "default_session"),
                                sessions, history, task_complete, sdk_client,
                                agent_id, env))

\* The reply of the handler: every exception raised inside the try block,
\* the HTTPException of line 95 included, reaches `except Exception` and is
\* answered with status 500 and str(e).
chat(request, env) ==
  IF Get(request, "message", "") = ""
    THEN Refused(request, "400", "Message is required", FALSE)
  ELSE IF ~data_file.exists
    THEN Refused(request, "500", "Failed to load health data", TRUE)
  ELSE Answered(request, data_file.content,
                process_message(request["message"], data_file.content,
                                Get(request, "session_id", "default_session"),
                                sessions, history, task_complete, sdk_client,
                                agent_id, env))

(***************************************************************************)
(* Inputs.                                                                 *)
(***************************************************************************)
PrecedenceMessage == "What's my cholesterol and blood test result"
ClosingMessage == "Thanks, goodbye!"
PlainMessage == "Hello"

LabMessage == "Show my lab results"
VitalsMessage == "How is my blood pressure?"

ChatMessages ==
  {PrecedenceMessage, ClosingMessage, PlainMessage, LabMessage, VitalsMessage}

SessionIds == {"s1", "s2"}

\* Request bodies: without a message, with an empty one, without a session
\* id, every message in session s1 and two of them in session s2.
ChatRequests ==
  {EmptyDict, [message |-> "", session_id |-> "s1"], [message |-> PlainMessage]}
  \cup {[message |-> m, session_id |-> "s1"] : m \in ChatMessages}
  \cup {[message |-> m, session_id |-> "s2"] : m \in {ClosingMessage, PlainMessage}}

\* The requests sent to an agent that has a platform client.
PlatformRequests ==
  {[message |-> m, session_id |-> "s1"] :
     m \in {LabMessage, ClosingMessage, PlainMessage}}

Requests(client) == IF client THEN PlatformRequests ELSE ChatRequests

DataFiles == {File(SampleData), File(BrokenData), NoFile}

\* What the platform answers to the chat-state prompt, to start, and to the
\* user's message.
CheckOutcomes ==
  {Raise("timeout"), Ok(""), Ok("[CONVERSATION_ENDS]"), Ok("[CONTINUE]")}
StartOutcomes == {Raise("unauthorized"), Ok("started")}
PlatformReply == "Your results look fine."
SendOutcomes == {Raise("timeout"), Ok(""), Ok(PlatformReply)}

QuietEnv ==
  [pre |-> Ok(""), start |-> Ok("started"), send |-> Ok(""), post |-> Ok("")]

\* An outcome is drawn only for a call that can be made: QuietEnv's stands
\* for the others.  start and send_message are not reached once the platform
\* has answered the first chat-state prompt with [CONVERSATION_ENDS], and
\* send_message is not reached when start raises.
Reachable(e) ==
  /\ e.pre = Ok("[CONVERSATION_ENDS]") => e.start = QuietEnv.start
  /\ (e.pre = Ok("[CONVERSATION_ENDS]") \/ e.start.raised) => e.send = QuietEnv.send

\* The outcomes a request can meet: none without a client, those of the two
\* chat-state prompts without an agent id.
Envs(client, aid) ==
  IF ~client THEN {QuietEnv}
  ELSE IF aid = ""
    THEN {[pre |-> a, start |-> QuietEnv.start, send |-> QuietEnv.send, post |-> d] :
            a \in CheckOutcomes, d \in CheckOutcomes}
  ELSE {e \in [pre : CheckOutcomes, start : StartOutcomes, send : SendOutcomes,
               post : CheckOutcomes] : Reachable(e)}

RequestBudget == IF sdk_client THEN MaxPlatformRequests ELSE MaxRequests

(***************************************************************************)
(* Actions.                                                                *)
(***************************************************************************)
ChatRequest ==
  /\ nreq < RequestBudget
  /\ \E request \in Requests(sdk_client), env \in Envs(sdk_client, agent_id) :
       chat(request, env)
  /\ nreq' = nreq + 1
  /\ UNCHANGED <<sdk_client, agent_id, data_file>>

\* The data file is replaced or removed between two requests.
ReplaceDataFile ==
  /\ \E f \in DataFiles \ {data_file} : data_file' = f
  /\ UNCHANGED <<sdk_client, agent_id, sessions, history, task_complete, calls,
                 last, nreq>>

Next == ChatRequest \/ ReplaceDataFile

Spec == Init /\ [][Next]_vars

(***************************************************************************)
(* The rule-based router on its own: _generate_rule_based_response applied *)
(* to one message and one dataset, on an agent without a platform client.  *)
(***************************************************************************)
\* Words of a message: terms of every keyword group, in the case a user
\* types them, words that hold a term inside ("available" holds "lab",
\* "interesting" holds "rest") and words that hold none.
RouteWords ==
  {"Cholesterol", "cholestrol", "LDL", "hdl", "Triglycerides", "lipids",
   "glucose", "sugar", "Diabetes", "A1C",
   "Vitamin", "minerals", "deficiency",
   "blood test", "Blood Work", "lab",
   "vital", "Blood Pressure", "heart rate", "temperature",
   "recommend", "advice", "suggestion", "Should I",
   "health status", "Health Overview", "my health", "summary",
   "sleep", "rest", "Insomnia",
   "available", "interesting", "hello"}

RouteMessages ==
  RouteWords \cup {a \o " and " \o b : a \in RouteWords, b \in RouteWords}
  \cup ChatMessages

\* The lists a dataset can hold under one key; Absent stands for a dataset
\* without the key.
Absent == "absent"
BloodTestLists == {Absent, <<>>, <<ElevatedTest, NormalTest>>, <<BrokenTest>>}
VitalsLists == {Absent, <<>>, <<ElevatedVitals, NormalVitals>>, <<BrokenVitals>>}
\* "no sleepData" stands for a healthMetrics dict without the sleepData key.
SleepLists == {Absent, "no sleepData", <<>>, ShortSleep, BrokenSleep}

HealthMetrics(s) == IF s = "no sleepData" THEN [steps |-> 8000] ELSE [sleepData |-> s]

DatasetKeys(b, v, s) ==
  {"user"} \cup (IF b = Absent THEN {} ELSE {"bloodTests"})
           \cup (IF v = Absent THEN {} ELSE {"vitals"})
           \cup (IF s = Absent THEN {} ELSE {"healthMetrics"})

PartialDataset(b, v, s) ==
  [k \in DatasetKeys(b, v, s) |->
     CASE k = "bloodTests" -> b
       [] k = "vitals" -> v
       [] k = "healthMetrics" -> HealthMetrics(s)
       [] OTHER -> "Alex"]

RouteDatasets ==
  {PartialDataset(b, v, s) : b \in BloodTestLists, v \in VitalsLists, s \in SleepLists}

RouteInput(message, health_data) ==
  [op |-> "input", request |-> [message |-> message], status |-> 0,
   raised |-> FALSE, body |-> "", kind |-> "", loaded |-> FALSE,
   reached_agent |-> FALSE, data |-> health_data]

Routed(message, health_data, r) ==
  last' = [op |-> "route", request |-> [message |-> message], status |-> 0,
           raised |-> r.raised, body |-> r.text, kind |-> r.kind,
           loaded |-> FALSE, reached_agent |-> TRUE, data |-> health_data]

\* The router is applied to the message and the dataset drawn at the start.
Route ==
  /\ last.op = "input"
  /\ Routed(last.request.message, last.data,
            generate_rule_based_response(last.request.message, last.data))
  /\ UNCHANGED <<sdk_client, agent_id, sessions, history, task_complete,
                 data_file, calls, nreq>>

InitRoute ==
  /\ Construct("", "", FALSE, "ok")
  /\ data_file = NoFile
  /\ \E message \in RouteMessages, health_data \in RouteDatasets :
       last = RouteInput(message, health_data)
  /\ nreq = 0

NextRoute == Route

SpecRoute == InitRoute /\ [][NextRoute]_vars

(***************************************************************************)
(* Properties of the router.                                               *)
(***************************************************************************)
\* The keyword groups in the order the specification gives them, each with
\* the terms of the router.
KeywordGroups ==
  <<[kind |-> "cholesterol", terms |-> CholesterolTerms],
    [kind |-> "glucose", terms |-> GlucoseTerms],
    [kind |-> "vitamins", terms |-> VitaminTerms],
    [kind |-> "blood_tests", terms |-> BloodTestTerms],
    [kind |-> "vitals", terms |-> VitalsTerms],
    [kind |-> "recommendations", terms |-> RecommendTerms],
    [kind |-> "overview", terms |-> OverviewTerms],
    [kind |-> "sleep", terms |-> SleepTerms]>>

\* The groups with a term that occurs in the lower-cased message.
MatchingGroups(message_lower) ==
  {i \in DOMAIN KeywordGroups :
     \E k \in DOMAIN KeywordGroups[i].terms :
       \E n \in 1..(Len(message_lower) - Len(KeywordGroups[i].terms[k]) + 1) :
         SubSeq(message_lower, n, n + Len(KeywordGroups[i].terms[k]) - 1)
           = KeywordGroups[i].terms[k]}

KindsOf(groups) == {KeywordGroups[i].kind : i \in groups}

FirstKind(groups) ==
  IF groups = {} THEN "general"
  ELSE KeywordGroups[CHOOSE i \in groups : \A j \in groups : i <= j].kind

SpecificKinds == {"cholesterol", "glucose", "vitamins"}

FirstGroupWins(groups) ==
  /\ last.kind = FirstKind(groups)
  /\ KindsOf(groups) \cap SpecificKinds # {} => last.kind \in SpecificKinds
  /\ last.kind = "general" => (~last.raised /\ last.body = DefaultText)

\* C1: the router answers with the handler of the first keyword group, in
\* the order cholesterol, glucose, vitamins, blood tests, vitals,
\* recommendations, overview, sleep, that has a term in the lower-cased
\* message; a message with a specific term and a general blood-test term is
\* never answered by the general blood-test analyzer; a message that matches
\* no group gets the default help text.
C1_FirstGroupWins ==
  last.op = "route" =>
    FirstGroupWins(MatchingGroups(Lower(last.request.message)))

\* A message with a cholesterol term and a general blood-test term has been
\* answered by the cholesterol analyzer.
C1_Witness ==
  /\ last.op = "route"
  /\ last.request.message = PrecedenceMessage
  /\ {"cholesterol", "blood_tests"}
       \subseteq KindsOf(MatchingGroups(Lower(PrecedenceMessage)))
  /\ last.kind = "cholesterol"
  /\ last.data = PartialDataset(<<ElevatedTest, NormalTest>>,
                                <<ElevatedVitals, NormalVitals>>, ShortSleep)

(***************************************************************************)
(* Properties of the chat endpoint and the agent.                          *)
(***************************************************************************)
\* The last operation is a chat request that reached the agent.
ChatReached == last.op = "chat" /\ last.reached_agent

\* The last operation is a chat request without a message or with an empty
\* one.
ChatWithoutMessage == last.op = "chat" /\ Get(last.request, "message", "") = ""

\* The calls of the last operation, by kind.
UserSends ==
  {i \in DOMAIN calls :
     calls[i].op = "send_message" /\ calls[i].session_id = "session_user"}
Starts == {i \in DOMAIN calls : calls[i].op = "start"}
ChatStateChecks ==
  {i \in DOMAIN calls :
     calls[i].op = "send_message" /\ calls[i].session_id = "check_chat_state"}

\* The platform was tried for the user's message and gave no usable reply.
AttemptFailed == \E i \in Starts \cup UserSends : ~calls[i].ok

\* The keyword group the local router selects for the message of the last
\* request.
LocalKind == FirstKind(MatchingGroups(Lower(last.request.message)))

C3_NoClientNoCalls == ~sdk_client => calls = <<>>

\* An agent without a client, though with an agent id, has answered its
\* second request.
C3_Witness ==
  /\ ~sdk_client
  /\ agent_id # ""
  /\ ChatReached
  /\ last.status = 200
  /\ Len(history) >= 4
  /\ calls = <<>>

\* C4: a chat request without a message, or with an empty one, is answered
\* with status 400.
C4_EmptyMessageIs400 == ChatWithoutMessage => last.status = 400

\* C5: a chat request without a message is refused before the data file is
\* read and before the agent is reached: no session is stored, the history
\* and task_complete are unchanged and no platform call is made.
C5_RefusedBeforeAgent ==
  [][(nreq' = nreq + 1 /\ Get(last'.request, "message", "") = "")
       => /\ ~last'.loaded
          /\ ~last'.reached_agent
          /\ last'.status >= 400
          /\ calls' = <<>>
          /\ UNCHANGED <<sessions, history, task_complete>>]_vars

\* A request without a message was refused by an agent that holds a session
\* and a history.
C5_Witness ==
  /\ ChatWithoutMessage
  /\ ~last.reached_agent
  /\ DOMAIN sessions # {}
  /\ history # <<>>

\* What a newly constructed agent without a client answers to a message.
FreshAnswer(message, health_data) ==
  on_message(message, health_data, <<>>, FALSE, FALSE, "", QuietEnv).text

\* C6: requests of other sessions do not change the answer a session gets:
\* the first request of a session is answered as a newly constructed agent
\* answers the same message on the same dataset.
C6_SessionsIndependent ==
  [][(/\ nreq' = nreq + 1
      /\ last'.reached_agent
      /\ ~sdk_client
      /\ Get(last'.request, "session_id", "default_session") \notin DOMAIN sessions)
       => last'.body = FreshAnswer(last'.request.message, last'.data)]_vars

\* What the platform's failures say.
PlatformErrorTexts == {"timeout", "unauthorized", "connection refused"}

NotSurfaced(r) ==
  /\ last.body \notin PlatformErrorTexts
  /\ \/ last.status = 200 /\ ~last.raised /\ last.body # ""
     \/ last.status = 500 /\ r.raised /\ last.body = r.text

C9_NoCallAfterFailure ==
  ChatReached =>
    /\ \A i, j \in DOMAIN calls : (i < j) => calls[i].ok
    /\ Cardinality(UserSends) <= 1

\* C9, amended: no call is repeated.  A request makes at most four platform
\* calls: the chat-state prompt before the response, start, the user's
\* message, the chat-state prompt after the response, each at most once;
\* the user's message is not sent after a failed start; a failure does not
\* stop the later calls, and after a failed start or send the only further
\* call is the chat-state prompt that ends the request.
C9_NoRetry ==
  ChatReached =>
    /\ Cardinality(UserSends) <= 1
    /\ Cardinality(Starts) <= 1
    /\ Cardinality(ChatStateChecks) <= 2
    /\ DOMAIN calls = ChatStateChecks \cup Starts \cup UserSends
    /\ \A i \in Starts : ~calls[i].ok => UserSends = {}
    /\ \A i \in Starts \cup UserSends :
         ~calls[i].ok =>
           \A j \in DOMAIN calls : (j > i) => (j \in ChatStateChecks /\ j = Len(calls))

\* The first chat-state prompt raised and start and the user's message
\* were still called; the message raised and the closing chat-state prompt
\* was still sent.
C9_Witness ==
  /\ ChatReached
  /\ Len(calls) = 4
  /\ calls[1].raised /\ 1 \in ChatStateChecks
  /\ 2 \in Starts
  /\ 3 \in UserSends /\ calls[3].raised
  /\ 4 \in ChatStateChecks

(***************************************************************************)
(* Missing and empty record lists.                                         *)
(***************************************************************************)
\* The dataset has no record under the key: the key is absent or its list
\* is empty.
NoRecords(d, key) == key \notin DOMAIN d \/ d[key] = <<>>

NoSleepRecords(d) ==
  \/ "healthMetrics" \notin DOMAIN d
  \/ NoRecords(d["healthMetrics"], "sleepData")

\* The lists the handler of a keyword group reads are all without a record.
NothingToRead(kind, d) ==
  CASE kind \in {"cholesterol", "glucose", "vitamins", "blood_tests"} ->
         NoRecords(d, "bloodTests")
    [] kind = "vitals" -> NoRecords(d, "vitals")
    [] kind = "sleep" -> NoSleepRecords(d)
    [] kind = "overview" -> NoRecords(d, "bloodTests") /\ NoRecords(d, "vitals")
    [] kind = "recommendations" ->
         NoRecords(d, "bloodTests") /\ NoRecords(d, "vitals") /\ NoSleepRecords(d)
    [] OTHER -> TRUE

\* The fixed sentence of each analyzer.
NoDataSentence ==
  [cholesterol |-> "No blood test data available for cholesterol analysis.",
   glucose |-> "No blood test data available for glucose analysis.",
   vitamins |-> "No blood test data available for vitamin and mineral analysis.",
   blood_tests |-> "No blood test data available for analysis.",
   vitals |-> "No vital sign data available for analysis.",
   sleep |-> "No sleep data available for analysis."]

\* C10: a missing or empty record list is never an error.  The handler the
\* router selects raises only when a list it reads holds a record; when the
\* lists it reads are absent or empty it returns a text, and the blood-test,
\* cholesterol, glucose, vitamin, vitals and sleep analyzers return their
\* fixed "No ... data available" sentence.
C10_MissingListNoError ==
  last.op = "route" =>
    /\ last.raised => ~NothingToRead(last.kind, last.data)
    /\ NothingToRead(last.kind, last.data) =>
         /\ last.body # ""
         /\ last.kind \in DOMAIN NoDataSentence
              => last.body = NoDataSentence[last.kind]
         /\ last.kind = "overview"
              => last.body = "Health Overview:\n\n" \o NoDataSentence["blood_tests"]
                             \o "\n\n" \o NoDataSentence["vitals"]

\* A sleep question on a dataset without healthMetrics and with malformed
\* blood-test and vitals records was answered with the sleep sentence.
C10_Witness ==
  /\ last.op = "route"
  /\ last.kind = "sleep"
  /\ last.data = PartialDataset(<<BrokenTest>>, <<BrokenVitals>>, Absent)
  /\ ~last.raised
  /\ last.body = NoDataSentence["sleep"]

(***************************************************************************)
(* The analyzers on their own: the handler of one keyword group applied to *)
(* one dataset, as _generate_rule_based_response calls it.                 *)
(***************************************************************************)
\* The values of the status enum; Absent stands for a result without the
\* status key.
StatusEnum ==
  {"normal", "elevated", "low", "deficient", "insufficient", "optimal", "unknown"}
StatusChoices == StatusEnum \cup {Absent}

\* A result with the given value and status, each left out when Absent.
MetricResult(value, status) ==
  [k \in {"unit", "normalRange"}
           \cup (IF value = Absent THEN {} ELSE {"value"})
           \cup (IF status = Absent THEN {} ELSE {"status"}) |->
     CASE k = "value" -> value
       [] k = "status" -> status
       [] k = "unit" -> "mg/dL"
       [] OTHER -> "see report"]

Test(items) == [date |-> "2023-04-15", results |-> items]

BloodOnly(blood_tests) == PartialDataset(blood_tests, Absent, Absent)

Case(kind, health_data) == [kind |-> kind, data |-> health_data]

\* Every combination of statuses of the four lipid results.
CholesterolStatusCases ==
  {Case("cholesterol",
        BloodOnly(<<Test(<<Item("cholesterolTotal", MetricResult("240", ts)),
                           Item("cholesterolLDL", MetricResult("160", ls)),
                           Item("cholesterolHDL", MetricResult("48", hs)),
                           Item("triglycerides", MetricResult("140", trs))>>)>>)) :
     ts \in StatusChoices, ls \in StatusChoices, hs \in StatusChoices,
     trs \in StatusChoices}

\* Values of total and HDL cholesterol: whole numbers on both sides of the
\* cutoffs of the ratio and on them (175/50 = 3.5, 250/50 = 5), the pair
\* 200 and 57.1, texts that are no number, zero, and no value.
TotalValues == {"174", "175", "200", "249", "250", "300", "abc", "", Absent}
HdlValues == {"50", "57.1", "40", "0", "0.0", "n/a", "", Absent}

CholesterolRatioCases ==
  {Case("cholesterol",
        BloodOnly(<<Test(<<Item("cholesterolTotal", MetricResult(tv, "normal")),
                           Item("cholesterolHDL", MetricResult(hv, "normal"))>>)>>)) :
     tv \in TotalValues, hv \in HdlValues}

\* Values of glucose and HbA1c on both sides of 126 and 6.5 and on them.
GlucoseValues == {"110", "125.9", "126", "140", "N/A", "", Absent}
A1cValues == {"5.8", "6.4", "6.5", "7", "high", Absent}

GlucoseCases ==
  {Case("glucose",
        BloodOnly(<<Test(<<Item("glucose", MetricResult(gv, gs)),
                           Item("hba1c", MetricResult(av, as))>>)>>)) :
     gv \in GlucoseValues, gs \in StatusChoices, av \in A1cValues,
     as \in StatusChoices}

VitaminCases ==
  {Case("vitamins",
        BloodOnly(<<Test(<<Item("vitaminD", MetricResult("18", vs))>>)>>)) :
     vs \in StatusChoices}

\* A vitals record whose blood pressure has the given status.
VitalsWith(status) ==
  [date |-> "2023-04-15",
   bloodPressure |->
     IF status = Absent THEN [systolic |-> 135, diastolic |-> 85]
     ELSE [systolic |-> 135, diastolic |-> 85, status |-> status],
   heartRate |-> Vital(72, "bpm", "normal"),
   oxygenSaturation |-> Vital(98, "%", "normal"),
   temperature |-> Vital(986, "F", "normal")]

VitalsCases ==
  {Case("vitals", PartialDataset(Absent, <<VitalsWith(bs)>>, Absent)) :
     bs \in StatusChoices}

\* Statuses that trigger a block of the synthesizer and statuses that do not.
TriggerChoices == {"elevated", "deficient", "normal", Absent}

\* Sleep lists whose average of totalHours is below 7.0 (6.0, 6.5, 7.0),
\* above it (7.5, 8.0) and exactly 7.0 (one day of 7.0; 6.5 and 7.5), the
\* empty list and no list.
SevenHours == <<Day(70, 15, 20)>>
SevenOnAverage == <<Day(65, 15, 15), Day(75, 20, 20)>>
AverageChoices == {Absent, <<>>, ShortSleep, GoodSleep, SevenHours, SevenOnAverage}

\* Datasets for the synthesizer: every combination of the statuses its
\* triggers read and of the sleep lists, and datasets without records.
RecommendationCases ==
  {Case("recommendations",
        PartialDataset(<<Test(<<Item("glucose", MetricResult("110", gs)),
                                Item("cholesterolTotal", MetricResult("240", ts)),
                                Item("cholesterolLDL", MetricResult("160", ls)),
                                Item("triglycerides", MetricResult("140", trs)),
                                Item("vitaminD", MetricResult("18", vs))>>)>>,
                       <<VitalsWith(bs)>>, sl)) :
     gs \in TriggerChoices, ts \in TriggerChoices, ls \in TriggerChoices,
     trs \in TriggerChoices, vs \in TriggerChoices, bs \in TriggerChoices,
     sl \in AverageChoices}
  \cup {Case("recommendations", PartialDataset(b, v, sl)) :
          b \in {Absent, <<>>}, v \in {Absent, <<>>}, sl \in AverageChoices}

\* The kinds whose handler reads the records of a dataset.
RecordKinds ==
  {"blood_tests", "cholesterol", "glucose", "vitamins", "vitals",
   "recommendations", "sleep"}

\* Datasets with several records: a first blood test and a first vitals
\* record, each followed by no, one or two older records, and a sleep list
\* of one to three days.
OlderTests == {<<>>, <<ElevatedTest>>, <<NormalTest, BrokenTest>>}
OlderVitals == {<<>>, <<ElevatedVitals>>, <<NormalVitals, BrokenVitals>>}
SeveralRecordsCases ==
  {Case(kind, PartialDataset(<<b>> \o bs, <<v>> \o vs, sl)) :
     kind \in RecordKinds,
     b \in {ElevatedTest, NormalTest, BrokenTest}, bs \in OlderTests,
     v \in {ElevatedVitals, NormalVitals, BrokenVitals}, vs \in OlderVitals,
     sl \in {ShortSleep, GoodSleep, SevenOnAverage, SevenHours,
             <<Day(60, 10, 15)>>}}

AnalyzerCases ==
  CholesterolStatusCases \cup CholesterolRatioCases \cup GlucoseCases
  \cup VitaminCases \cup VitalsCases \cup RecommendationCases
  \cup SeveralRecordsCases

AnalyzerInput(c) ==
  [op |-> "analyzer input", request |-> EmptyDict, status |-> 0,
   raised |-> FALSE, body |-> "", kind |-> c.kind, loaded |-> FALSE,
   reached_agent |-> FALSE, data |-> c.data]

Analyzed(kind, health_data, r) ==
  last' = [op |-> "analyze", request |-> EmptyDict, status |-> 0,
           raised |-> r.raised, body |-> r.text, kind |-> kind,
           loaded |-> FALSE, reached_agent |-> TRUE, data |-> health_data]

\* The handler is applied to the dataset drawn at the start.
Analyze ==
  /\ last.op = "analyzer input"
  /\ Analyzed(last.kind, last.data, RouteTo(last.kind, last.data))
  /\ UNCHANGED <<sdk_client, agent_id, sessions, history, task_complete,
                 data_file, calls, nreq>>

InitAnalyze ==
  /\ Construct("", "", FALSE, "ok")
  /\ data_file = NoFile
  /\ \E c \in AnalyzerCases : last = AnalyzerInput(c)
  /\ nreq = 0

NextAnalyze == Analyze

SpecAnalyze == InitAnalyze /\ [][NextAnalyze]_vars

(***************************************************************************)
(* Properties of the analyzers.                                            *)
(***************************************************************************)
\* The results of the first blood test of a dataset, and one of them.
LatestResults(d) ==
  IF NoRecords(d, "bloodTests") THEN <<>>
  ELSE Get(d["bloodTests"][1], "results", <<>>)

LatestResult(d, name) == ODGet(LatestResults(d), name, EmptyDict)

LatestBloodPressure(d) ==
  IF NoRecords(d, "vitals") THEN EmptyDict
  ELSE Get(d["vitals"][1], "bloodPressure", EmptyDict)

\* The entry of a metric in the first record.
MetricEntry(d, metric) ==
  IF metric = "bloodPressure" THEN LatestBloodPressure(d)
  ELSE LatestResult(d, metric)

\* The status of a metric in the first record, Absent when it has none.
MetricStatus(d, metric) == Get(MetricEntry(d, metric), "status", Absent)

\* The metrics each analyzer reports.
ReportedMetrics ==
  [cholesterol |-> {"cholesterolTotal", "cholesterolLDL", "cholesterolHDL",
                    "triglycerides"},
   glucose |-> {"glucose", "hba1c"},
   vitamins |-> {"vitaminD"},
   vitals |-> {"bloodPressure"}]

\* The advisory paragraphs, each by its first sentence, with the metric and
\* the status that select it.
AdvisoryParagraphs ==
  {[metric |-> "cholesterolTotal", status |-> "elevated",
    text |-> "Your total cholesterol is elevated."],
   [metric |-> "cholesterolLDL", status |-> "elevated",
    text |-> "Your LDL cholesterol is elevated."],
   [metric |-> "cholesterolHDL", status |-> "low",
    text |-> "Your HDL cholesterol is lower than optimal."],
   [metric |-> "triglycerides", status |-> "elevated",
    text |-> "Your triglycerides are elevated."],
   [metric |-> "glucose", status |-> "elevated",
    text |-> "Your glucose level is elevated."],
   [metric |-> "glucose", status |-> "low",
    text |-> "Your glucose level is lower than normal."],
   [metric |-> "hba1c", status |-> "elevated",
    text |-> "Your HbA1c is elevated."],
   [metric |-> "vitaminD", status |-> "deficient",
    text |-> "You have vitamin D deficiency."],
   [metric |-> "vitaminD", status |-> "insufficient",
    text |-> "Your vitamin D level is insufficient (suboptimal)."],
   [metric |-> "bloodPressure", status |-> "elevated",
    text |-> "Your blood pressure is elevated."]}

\* The last operation is an analyzer that reports metrics and returned.
AnalyzerReturned ==
  last.op = "analyze" /\ last.kind \in DOMAIN ReportedMetrics /\ ~last.raised

\* The output holds an advisory paragraph of the metric.
HasAdvisory(metric) ==
  \E p \in AdvisoryParagraphs : p.metric = metric /\ Contains(last.body, p.text)

\* C11 as stated: for every metric the analyzer reports, the output holds
\* an advisory paragraph of the metric when its status is not "normal" and
\* none when it is "normal".
C11_AdvisoryUnlessNormal ==
  AnalyzerReturned =>
    \A metric \in ReportedMetrics[last.kind] :
      MetricStatus(last.data, metric) \in StatusEnum =>
        (HasAdvisory(metric) <=> MetricStatus(last.data, metric) # "normal")

\* C11, amended: an advisory paragraph is selected by an exact match of the
\* status.  The output holds the paragraph of a metric and a status iff the
\* metric has exactly that status: "elevated" for total and LDL
\* cholesterol, triglycerides, HbA1c and blood pressure, "low" for HDL,
\* "elevated" or "low" for glucose, "deficient" or "insufficient" for
\* vitamin D.  Every other status, "normal" among them, gives no advisory
\* paragraph for the metric.
C11_AdvisoryByExactStatus ==
  AnalyzerReturned =>
    \A p \in AdvisoryParagraphs :
      p.metric \in ReportedMetrics[last.kind] =>
        (Contains(last.body, p.text)
           <=> MetricStatus(last.data, p.metric) = p.status)

\* The cholesterol analyzer reported a low total cholesterol and an elevated
\* LDL: the paragraph of the LDL is in the output, and none for the total.
C11_Witness ==
  /\ AnalyzerReturned
  /\ last.kind = "cholesterol"
  /\ MetricStatus(last.data, "cholesterolTotal") = "low"
  /\ MetricStatus(last.data, "cholesterolLDL") = "elevated"
  /\ Contains(last.body, "Your LDL cholesterol is elevated.")
  /\ ~HasAdvisory("cholesterolTotal")

\* The tier sentences of the ratio, each by its opening words.
OptimalTier == "This ratio is optimal (below 3.5)"
AcceptableTier == "This ratio is good (below 5)"
ElevatedRiskTier == "This ratio is higher than optimal (above 5)"
RatioTiers == {OptimalTier, AcceptableTier, ElevatedRiskTier}
RatioLine == "Total Cholesterol to HDL Ratio: "

TiersIn(text) == {t \in RatioTiers : Contains(text, t)}

\* The value of a metric as a fraction num/den, ok telling that the metric
\* has a value that is a number.
MetricValue(d, metric) ==
  IF Get(MetricEntry(d, metric), "value", "") = ""
    THEN [ok |-> FALSE, num |-> 0, den |-> 1]
    ELSE ParseFloat(MetricEntry(d, metric)["value"])

\* The tier of the ratio total / hdl of two fractions, hdl not zero:
\* total / hdl < 7/2, then total / hdl < 5.
TierOf(total, hdl) ==
  IF 2 * total.num * hdl.den < 7 * hdl.num * total.den THEN OptimalTier
  ELSE IF total.num * hdl.den < 5 * hdl.num * total.den THEN AcceptableTier
  ELSE ElevatedRiskTier

RatioTierIs(total, hdl) ==
  (total.ok /\ hdl.ok /\ hdl.num # 0) =>
    /\ Contains(last.body, RatioLine)
    /\ TiersIn(last.body) = {TierOf(total, hdl)}

\* C12: when total and HDL cholesterol both have a value that is a number
\* and the HDL is not zero, the cholesterol analyzer writes the ratio line
\* and exactly one tier sentence: optimal iff ratio < 3.5, acceptable iff
\* 3.5 <= ratio < 5, elevated-risk iff ratio >= 5.
C12_RatioTierByCutoffs ==
  (AnalyzerReturned /\ last.kind = "cholesterol") =>
    RatioTierIs(MetricValue(last.data, "cholesterolTotal"),
                MetricValue(last.data, "cholesterolHDL"))

\* Total 175 with HDL 50, a ratio of exactly 3.5, was put in the acceptable
\* tier.
C12_Witness ==
  /\ AnalyzerReturned
  /\ last.kind = "cholesterol"
  /\ Get(MetricEntry(last.data, "cholesterolTotal"), "value", Absent) = "175"
  /\ Get(MetricEntry(last.data, "cholesterolHDL"), "value", Absent) = "50"
  /\ Contains(last.body, RatioLine \o "3.5\n")
  /\ TiersIn(last.body) = {AcceptableTier}

\* The last operation is the cholesterol analyzer on these values of total
\* and HDL cholesterol.
CholesterolOn(total_value, hdl_value) ==
  /\ AnalyzerReturned
  /\ last.kind = "cholesterol"
  /\ Get(MetricEntry(last.data, "cholesterolTotal"), "value", Absent) = total_value
  /\ Get(MetricEntry(last.data, "cholesterolHDL"), "value", Absent) = hdl_value

\* C13 as stated: total 200 with HDL 57.1 is in the optimal tier, total 300
\* with HDL 50 in the elevated-risk tier.
C13_StatedTiers ==
  /\ CholesterolOn("200", "57.1") => TiersIn(last.body) = {OptimalTier}
  /\ CholesterolOn("300", "50") => TiersIn(last.body) = {ElevatedRiskTier}

\* C13, amended: total 200 with HDL 57.1 gives a ratio just above 3.5
\* (3.5026.., printed 3.5), which is in the acceptable tier; total 300 with
\* HDL 50 gives 6.0, in the elevated-risk tier.
C13_ActualTiers ==
  /\ CholesterolOn("200", "57.1") =>
       /\ Contains(last.body, RatioLine \o "3.5\n")
       /\ TiersIn(last.body) = {AcceptableTier}
  /\ CholesterolOn("300", "50") =>
       /\ Contains(last.body, RatioLine \o "6.0\n")
       /\ TiersIn(last.body) = {ElevatedRiskTier}

\* Total 200 with HDL 57.1 was analyzed and put in the acceptable tier.
C13_Witness ==
  /\ CholesterolOn("200", "57.1")
  /\ TiersIn(last.body) = {AcceptableTier}

\* The last operation is the cholesterol analyzer on a first record that
\* has a total and an HDL cholesterol entry.
CholesterolAnalyzed ==
  /\ last.op = "analyze"
  /\ last.kind = "cholesterol"
  /\ Truthy(MetricEntry(last.data, "cholesterolTotal"))
  /\ Truthy(MetricEntry(last.data, "cholesterolHDL"))

RatioOmitted(total, hdl) ==
  ~(total.ok /\ hdl.ok /\ hdl.num # 0) =>
    /\ ~last.raised
    /\ ~Contains(last.body, "Ratio")
    /\ TiersIn(last.body) = {}
    /\ Contains(last.body, "Total Cholesterol: ")
    /\ Contains(last.body, "HDL (Good) Cholesterol: ")
    /\ Contains(last.body, "General recommendations for cholesterol management:")

\* C14: when the total or the HDL value is a text that is no number, or the
\* HDL is zero (or a value is missing), the cholesterol analyzer does not
\* raise; its output has neither the ratio line nor a tier sentence, and
\* has the sections of the metrics and the general recommendations.
C14_RatioOmittedSilently ==
  CholesterolAnalyzed =>
    RatioOmitted(MetricValue(last.data, "cholesterolTotal"),
                 MetricValue(last.data, "cholesterolHDL"))

\* Total 200 with an HDL of zero was analyzed without the ratio.
C14_Witness ==
  /\ CholesterolAnalyzed
  /\ Get(MetricEntry(last.data, "cholesterolTotal"), "value", Absent) = "200"
  /\ Get(MetricEntry(last.data, "cholesterolHDL"), "value", Absent) = "0"
  /\ ~last.raised
  /\ ~Contains(last.body, RatioLine)
  /\ Contains(last.body, "General recommendations for cholesterol management:")

\* The narratives of the elevated branch of the glucose analyzer.
PrediabetesNarrative == "Your level suggests prediabetes.\n\n"
DiabetesNarrative == "Your level suggests possible diabetes.\n\n"
A1cPrediabetesSentence == "A level between 5.7-6.4% suggests prediabetes.\n\n"
A1cDiabetesSentence == "A level of 6.5% or higher suggests diabetes.\n\n"

\* The last operation is the glucose analyzer on a first record where the
\* status of the metric is "elevated".
ElevatedAnalyzed(metric) ==
  /\ last.op = "analyze"
  /\ last.kind = "glucose"
  /\ MetricStatus(last.data, metric) = "elevated"

\* The value v (a parsed fraction) is a number below ln / ld.
NumberBelow(v, ln, ld) == v.ok /\ v.num * ld < ln * v.den

\* The analyzer returned a text that holds the first variant when the value
\* is present and below the threshold and the second one otherwise, never
\* both.
OneVariant(v, ln, ld, below, other) ==
  /\ ~last.raised
  /\ Contains(last.body, below) <=> NumberBelow(v, ln, ld)
  /\ Contains(last.body, other) <=> ~NumberBelow(v, ln, ld)

\* C15: for a glucose of status "elevated" the analyzer writes the
\* prediabetes narrative when the value is present and below 126 and the
\* diabetes narrative otherwise, and for an HbA1c of status "elevated" the
\* prediabetes sentence when the value is below 6.5 and the diabetes
\* sentence otherwise; exactly one of the two variants appears per metric.
C15_OneNarrativePerMetric ==
  /\ ElevatedAnalyzed("glucose") =>
       OneVariant(MetricValue(last.data, "glucose"), 126, 1,
                  PrediabetesNarrative, DiabetesNarrative)
  /\ ElevatedAnalyzed("hba1c") =>
       OneVariant(MetricValue(last.data, "hba1c"), 65, 10,
                  A1cPrediabetesSentence, A1cDiabetesSentence)

\* What the code does on the values that are numbers or missing: the claimed
\* variants (126 and 6.5 are in the diabetes range).
C15_OneNarrativeOnNumbers ==
  ~last.raised => C15_OneNarrativePerMetric

\* An elevated glucose whose value is the text N/A: the analyzer raises.
C15_RaisedOnText ==
  /\ ElevatedAnalyzed("glucose")
  /\ Get(MetricEntry(last.data, "glucose"), "value", Absent) = "N/A"
  /\ last.raised

\* The headings of the numbered blocks of the synthesizer, by number, the
\* heading of the general block and the first line of the output.
BlockHeadings ==
  <<"1. Blood Sugar Management:\n", "2. Cholesterol Management:\n",
    "3. Vitamin D Improvement:\n", "4. Blood Pressure Management:\n",
    "5. Sleep Improvement:\n">>
GeneralHeading == "General Health Maintenance:\n"
RecommendationsTitle == "Personalized Health Recommendations:\n\n"

\* The output made of the blocks whose numbers are in S, in the order of
\* their numbers, followed by the general block.
BlocksInOrder(S) ==
  RecommendationsTitle
  \o (IF 1 \in S THEN BlockHeadings[1] ELSE "")
  \o (IF 2 \in S THEN BlockHeadings[2] ELSE "")
  \o (IF 3 \in S THEN BlockHeadings[3] ELSE "")
  \o (IF 4 \in S THEN BlockHeadings[4] ELSE "")
  \o (IF 5 \in S THEN BlockHeadings[5] ELSE "")
  \o GeneralHeading

\* The last operation is the synthesizer and it returned a text.
Synthesized ==
  last.op = "analyze" /\ last.kind = "recommendations" /\ ~last.raised

\* The numbers of the blocks the output holds.
BlocksIn(text) == {i \in 1..5 : Contains(text, BlockHeadings[i])}

\* C16: the output of the synthesizer is its blocks in the order blood sugar,
\* cholesterol, vitamin D, blood pressure, sleep, each under its own number
\* 1 to 5 whatever blocks are skipped, followed by the general block, which
\* is always there and always last.
C16_FixedOrderAndNumbers ==
  Synthesized => last.body = BlocksInOrder(BlocksIn(last.body))

\* Blocks 1, 4 and 5 without blocks 2 and 3, and the dataset without any
\* record, which gives the general block alone.
C16_Witness ==
  /\ Synthesized
  /\ BlocksIn(last.body) = {1, 4, 5}
  /\ last.body = RecommendationsTitle \o BlockHeadings[1] \o BlockHeadings[4]
                   \o BlockHeadings[5] \o GeneralHeading

C16_EmptyDataset ==
  /\ Synthesized
  /\ DOMAIN last.data = {"user"}
  /\ last.body = RecommendationsTitle \o GeneralHeading

\* The sleep records of a dataset.
SleepRecords(d) ==
  IF NoSleepRecords(d) THEN <<>> ELSE d["healthMetrics"]["sleepData"]

\* The average of totalHours (in tenths of an hour) is below 7.0.
AverageBelowSeven(days) ==
  Len(days) > 0 /\ SumField(days, "totalHours") < 70 * Len(days)

\* The blocks whose trigger holds on the first blood test, the first vitals
\* record and the sleep list of a dataset.
Triggered(d) ==
  (IF MetricStatus(d, "glucose") = "elevated" THEN {1} ELSE {})
  \cup (IF \E m \in {"cholesterolTotal", "cholesterolLDL", "triglycerides"} :
             MetricStatus(d, m) = "elevated" THEN {2} ELSE {})
  \cup (IF MetricStatus(d, "vitaminD") = "deficient" THEN {3} ELSE {})
  \cup (IF MetricStatus(d, "bloodPressure") = "elevated" THEN {4} ELSE {})
  \cup (IF AverageBelowSeven(SleepRecords(d)) THEN {5} ELSE {})

\* C17: the synthesizer writes block 1 iff the glucose status is "elevated",
\* block 2 iff the status of total cholesterol, LDL or triglycerides is
\* "elevated", block 3 iff the vitamin D status is "deficient", block 4 iff
\* the blood-pressure status is "elevated", and block 5 iff the sleep list
\* is not empty and the average of totalHours is strictly below 7.0.
C17_BlockIffTrigger ==
  Synthesized => BlocksIn(last.body) = Triggered(last.data)

\* An average of exactly 7.0 hours (6.5 and 7.5) without the sleep block,
\* next to an elevated LDL that alone gives block 2.
C17_Witness ==
  /\ Synthesized
  /\ SleepRecords(last.data) = SevenOnAverage
  /\ MetricStatus(last.data, "cholesterolLDL") = "elevated"
  /\ MetricStatus(last.data, "cholesterolTotal") = "normal"
  /\ BlocksIn(last.body) = {2}

\* A list cut to its first record.
FirstOnly(list) == IF Len(list) = 0 THEN list ELSE <<list[1]>>

\* A dataset whose blood tests and vitals are cut to their first record.
FirstRecordsOnly(d) ==
  [k \in DOMAIN d |->
     IF k \in {"bloodTests", "vitals"} THEN FirstOnly(d[k]) ELSE d[k]]

\* The kinds of the analyzers of blood tests and vitals, and the synthesizer.
FirstRecordKinds ==
  {"blood_tests", "cholesterol", "glucose", "vitamins", "vitals", "recommendations"}

\* The outcome (text or error) of the last operation is the outcome r.
SameOutcome(r) == last.raised = r.raised /\ last.body = r.text

\* The sleep analyzer reports the number of all days and the average of
\* totalHours over all of them.
ReportsAllDays(days) ==
  /\ Contains(last.body, "(last " \o ToString(Len(days)) \o " days)")
  /\ Contains(last.body,
              "Average Total Sleep: "
              \o FmtTenths(RoundAvg(SumField(days, "totalHours"), Len(days)))
              \o " hours\n")

\* C18: the outcome of the blood-test, cholesterol, glucose, vitamin and
\* vitals analyzers and of the synthesizer is the one they have on the
\* dataset whose blood tests and vitals are cut to their first record, so
\* that two datasets with the same first records give the same output; the
\* sleep analyzer reports the averages over all the sleep records, and the
\* sleep block of the synthesizer follows the average over all of them.
C18_FirstRecordOnly ==
  /\ (last.op = "analyze" /\ last.kind \in FirstRecordKinds) =>
       SameOutcome(Handle(last.kind, FirstRecordsOnly(last.data)))
  /\ (last.op = "analyze" /\ last.kind = "sleep" /\ ~last.raised
      /\ Len(SleepRecords(last.data)) > 0) =>
       ReportsAllDays(SleepRecords(last.data))
  /\ Synthesized =>
       (5 \in BlocksIn(last.body) <=> AverageBelowSeven(SleepRecords(last.data)))

\* The synthesizer on a dataset whose first vitals record is normal and is
\* followed by an elevated one: no blood-pressure block.
C18_Witness ==
  /\ Synthesized
  /\ {"vitals", "bloodTests"} \subseteq DOMAIN last.data
  /\ Len(last.data["vitals"]) = 2
  /\ MetricStatus(last.data, "bloodPressure") = "normal"
  /\ StatusIs(last.data["vitals"][2]["bloodPressure"], "elevated")
  /\ Len(last.data["bloodTests"]) = 3
  /\ ~(4 \in BlocksIn(last.body))

\* The sleep analyzer on three days whose output is not the one of the
\* first day alone.
C18_SleepOnAllDays ==
  /\ last.op = "analyze" /\ last.kind = "sleep" /\ ~last.raised
  /\ SleepRecords(last.data) = ShortSleep
  /\ Contains(last.body, "Average Total Sleep: 6.5 hours\n")
  /\ last.body # analyze_sleep(FirstOnly(ShortSleep)).text

\* The session id of a request body (main.py 92).
SessionOf(request) == Get(request, "session_id", "default_session")

\* The store sess2 is the store sess1 after a write of health_data under
\* session_id: the entry written holds the data, every other entry is as it
\* was, and no entry is gone.
Written(sess1, sess2, session_id, health_data) ==
  /\ DOMAIN sess2 = DOMAIN sess1 \cup {session_id}
  /\ sess2[session_id] = [health_data |-> health_data]
  /\ \A k \in DOMAIN sess1 \ {session_id} : sess2[k] = sess1[k]

\* C19: a call of process_message with session id s leaves in sessions[s]
\* exactly the health data it was passed, whatever was stored before and
\* whether or not the agent then fails; it leaves the entry of every other
\* session id unchanged; and no step removes an entry (the set of stored
\* session ids only grows).
C19_LastWriteWins ==
  [][/\ (nreq' = nreq + 1 /\ last'.reached_agent)
          => Written(sessions, sessions', SessionOf(last'.request), last'.data)
     /\ ~(nreq' = nreq + 1 /\ last'.reached_agent) => sessions' = sessions
     /\ DOMAIN sessions \subseteq DOMAIN sessions']_vars

\* Session s1 was written after session s2 with another dataset, by a
\* request the agent failed on: s1 holds the new dataset and s2 still holds
\* the one it was written with.
C19_Witness ==
  /\ ChatReached
  /\ SessionOf(last.request) = "s1"
  /\ last.raised
  /\ DOMAIN sessions = {"s1", "s2"}
  /\ sessions["s1"] = [health_data |-> BrokenData]
  /\ sessions["s2"] = [health_data |-> SampleData]

\* Session s1 was written twice: it holds the data of the second request.
C19_Overwritten ==
  /\ nreq = 2
  /\ ChatReached
  /\ DOMAIN sessions = {"s1"}
  /\ sessions["s1"] = [health_data |-> last.data]
  /\ last.data = BrokenData
  /\ Len(history) >= 2
  /\ history[1].content = LabMessage

\* The kinds of the answers that are not made by a local handler.
OtherKinds == {"", "pinai_sdk", "ended", "empty"}

\* The last request was routed to a local handler that raises on the
\* dataset of the request.
HandlerRaised ==
  /\ ChatReached
  /\ last.kind \notin OtherKinds
  /\ Handle(last.kind, last.data).raised

\* C20: a chat request whose routed handler meets a record without a key it
\* reads is answered with status 500 and the text of the error, not with a
\* text of the agent.
C20_MalformedRecordIs500 ==
  HandlerRaised =>
    /\ last.status = 500
    /\ last.raised
    /\ last.body = Handle(last.kind, last.data).text
    /\ \E k \in {"unit", "bloodPressure", "value", "normalRange", "status"} :
         last.body = "'" \o k \o "'"

\* The blood-test analyzer on an elevated result without unit, and the
\* vitals analyzer on a record without bloodPressure.
C20_Witness ==
  /\ HandlerRaised
  /\ last.request.message = LabMessage
  /\ last.kind = "blood_tests"
  /\ last.status = 500
  /\ last.body = "'unit'"

C20_VitalsWitness ==
  /\ HandlerRaised
  /\ last.request.message = VitalsMessage
  /\ last.kind = "vitals"
  /\ last.status = 500
  /\ last.body = "'bloodPressure'"

(***************************************************************************)
(* The agent called directly: process_message, on_message with a message   *)
(* of sender "user" that may carry no health data in its metadata, and     *)
(* _generate_rule_based_response, on an agent without a platform client.   *)
(***************************************************************************)
\* health_agent.py 218-224
EmptyHealthData ==
  [user |-> EmptyDict, bloodTests |-> <<>>, vitals |-> <<>>,
   medicalHistory |-> EmptyDict, healthMetrics |-> EmptyDict]

\* health_agent.py 207-224; the health data of the model's messages is a
\* dict, never a JSON text.
get_health_data_from_context(metadata, sender, sess) ==
  IF Truthy(metadata) /\ "health_data" \in DOMAIN metadata
    THEN metadata["health_data"]
  ELSE IF sender # "" /\ ("session_" \o sender) \in DOMAIN sess
          /\ "health_data" \in DOMAIN sess["session_" \o sender]
    THEN sess["session_" \o sender]["health_data"]
  ELSE EmptyHealthData

AgentMessages == {LabMessage, VitalsMessage}
AgentDatasets == {SampleData, HealthyData}
AgentSessionIds == {"s1", "session_user"}
\* The metadata of a message sent to on_message: none, one without health
\* data, one with health data.
Metadatas == {EmptyDict, [source |-> "test"], [health_data |-> HealthyData]}

\* The state after a call on the agent: r is its outcome and the agent's
\* state after it, health_data the dataset the analysis was given.
AgentDone(op, request, health_data, r) ==
  /\ last' = [op |-> op, request |-> request, status |-> 0, raised |-> r.raised,
              body |-> r.text, kind |-> r.kind, loaded |-> FALSE,
              reached_agent |-> TRUE, data |-> health_data]
  /\ sessions' = r.sessions
  /\ history' = r.history
  /\ task_complete' = r.task_complete
  /\ calls' = r.calls
  /\ nreq' = nreq + 1
  /\ UNCHANGED <<sdk_client, agent_id, data_file>>

ProcessMessage ==
  /\ nreq < MaxAgentCalls
  /\ \E message \in AgentMessages, health_data \in AgentDatasets,
        session_id \in AgentSessionIds :
       AgentDone("process_message",
                 [message |-> message, session_id |-> session_id], health_data,
                 process_message(message, health_data, session_id, sessions,
                                 history, task_complete, sdk_client, agent_id,
                                 QuietEnv))

\* on_message (157-194) on a message of sender "user" with the metadata
\* given; the session store is read, never written.
OnMessageWith(message, metadata, health_data) ==
  AgentDone("on_message", [message |-> message, metadata |-> metadata],
            health_data,
            WithSessions(on_message(message, health_data, history, task_complete,
                                    sdk_client, agent_id, QuietEnv),
                         sessions))

DirectMessage ==
  /\ nreq < MaxAgentCalls
  /\ \E message \in AgentMessages, metadata \in Metadatas :
       OnMessageWith(message, metadata,
                     get_health_data_from_context(metadata, "user", sessions))

\* Faulty variant of RuleBasedDone: the router appends its answer to the
\* conversation history.
RuleBasedDoneRemembering(message, health_data, r) ==
  /\ last' = [op |-> "rule_based", request |-> [message |-> message],
              status |-> 0, raised |-> r.raised, body |-> r.text,
              kind |-> r.kind, loaded |-> FALSE, reached_agent |-> TRUE,
              data |-> health_data]
  /\ history' = Append(history, AssistantMessage(r.text))
  /\ nreq' = nreq + 1
  /\ UNCHANGED <<sdk_client, agent_id, sessions, task_complete, data_file, calls>>

\* _generate_rule_based_response called on the agent (280-332): it reads
\* its two arguments and writes no attribute of the agent.
RuleBasedDone(message, health_data, r) ==
  /\ last' = [op |-> "rule_based", request |-> [message |-> message],
              status |-> 0, raised |-> r.raised, body |-> r.text,
              kind |-> r.kind, loaded |-> FALSE, reached_agent |-> TRUE,
              data |-> health_data]
  /\ nreq' = nreq + 1
  /\ UNCHANGED <<sdk_client, agent_id, sessions, history, task_complete,
                 data_file, calls>>

RuleBasedCall ==
  /\ nreq < MaxAgentCalls
  /\ \E message \in AgentMessages \cup {PlainMessage},
        health_data \in AgentDatasets \cup {BrokenData} :
       RuleBasedDone(message, health_data,
                     generate_rule_based_response(message, health_data))

InitAgent ==
  /\ Construct("", "", FALSE, "ok")
  /\ data_file = NoFile
  /\ last = Nothing
  /\ nreq = 0

NextAgent == ProcessMessage \/ DirectMessage \/ RuleBasedCall

SpecAgent == InitAgent /\ [][NextAgent]_vars

\* The last call is on_message on a message without health data in its
\* metadata.
DirectWithoutData ==
  /\ last.op = "on_message"
  /\ "health_data" \notin DOMAIN last.request.metadata

\* The session ids under which process_message stored the health data of
\* the messages of the user.
StoredFor == DOMAIN sessions

\* C21: when on_message receives a message without health data in its
\* metadata, the analysis is given the health data stored by process_message
\* for the session of the message, and the empty dataset only when nothing
\* was stored for it.
C21_StoredDataIsFallback ==
  DirectWithoutData =>
    /\ StoredFor # {} => \E s \in StoredFor : last.data = sessions[s].health_data
    /\ last.data = EmptyHealthData => StoredFor = {}

\* What the code does: the store is read under "session_" followed by the
\* sender of the message, whatever ids process_message has written.
C21_ReadUnderSenderKey ==
  DirectWithoutData =>
    last.data = IF "session_user" \in DOMAIN sessions
                  THEN sessions["session_user"].health_data
                  ELSE EmptyHealthData

\* Health data was stored for session s1 and a message without health data
\* was analyzed on the empty dataset.
C21_StoredButEmpty ==
  /\ DirectWithoutData
  /\ DOMAIN sessions = {"s1"}
  /\ sessions["s1"].health_data = SampleData
  /\ last.data = EmptyHealthData
  /\ last.body = "No blood test data available for analysis."

\* The one id under which the stored data is found.
C21_FoundUnderSessionUser ==
  /\ DirectWithoutData
  /\ DOMAIN sessions = {"session_user"}
  /\ last.data = SampleData
  /\ last.kind = "blood_tests"

\* The step is a call of _generate_rule_based_response.
RuleBasedStep == nreq' = nreq + 1 /\ last'.op = "rule_based"

C22_SameTextThroughAgent ==
  (last.op \in {"process_message", "on_message"} /\ last.kind \notin OtherKinds)
    => /\ last.body = generate_rule_based_response(last.request.message, last.data).text
       /\ last.raised = generate_rule_based_response(last.request.message, last.data).raised

TermSamples ==
  {UserMessage(ClosingMessage), UserMessage("BYE"), UserMessage("Thank You"),
   UserMessage("maybe bye-bye"),
   [role |-> "user", sender |-> "Goodbye Bot", content |-> "Hello"],
   UserMessage("thank-you"), UserMessage("by the way")}

\* A history of n messages, users' and the agent's in turn, with message m
\* at position p.
HistoryWith(n, p, m) ==
  [i \in 1..n |->
     IF i = p THEN m
     ELSE IF i % 2 = 1 THEN UserMessage(PlainMessage)
     ELSE AssistantMessage("Noted.")]

Histories ==
  {HistoryWith(n, 0, UserMessage(PlainMessage)) : n \in 0..MaxHistory}
  \cup {HistoryWith(n, p, m) : n \in 1..MaxHistory, p \in 1..MaxHistory,
                               m \in TermSamples}

\* The platform's answer to the prompt is kept in the request of the input.
ChatStateInput(outcome) ==
  [op |-> "check input", request |-> outcome, status |-> 0, raised |-> FALSE,
   body |-> "", kind |-> "", loaded |-> FALSE, reached_agent |-> FALSE,
   data |-> EmptyDict]

ChatStateChecked(outcome, r) ==
  /\ last' = [op |-> "check_chat_state", request |-> outcome, status |-> 0,
              raised |-> FALSE, body |-> r.content, kind |-> "", loaded |-> FALSE,
              reached_agent |-> TRUE, data |-> EmptyDict]
  /\ calls' = r.calls

CheckChatState ==
  /\ last.op = "check input"
  /\ ChatStateChecked(last.request,
                      llm_call_to_check_chat_state(history, sdk_client, last.request))
  /\ UNCHANGED <<sdk_client, agent_id, sessions, history, task_complete,
                 data_file, nreq>>

InitChatState ==
  /\ sdk_client \in BOOLEAN
  /\ agent_id = ""
  /\ sessions = EmptyDict
  /\ history \in Histories
  /\ task_complete = FALSE
  /\ data_file = NoFile
  /\ calls = <<>>
  /\ \E outcome \in CheckOutcomes :
       /\ (~sdk_client => outcome = Ok(""))
       /\ last = ChatStateInput(outcome)
  /\ nreq = 0

NextChatState == CheckChatState

SpecChatState == InitChatState /\ [][NextChatState]_vars

\* The check was answered without a usable answer of the platform: no
\* client, an exception, or an empty reply.
CheckedWithoutPlatform ==
  /\ last.op = "check_chat_state"
  /\ ~sdk_client \/ last.request.raised \/ last.request.text = ""

\* The closing terms of the claim.
ClaimedTerms == {"goodbye", "thank you", "thanks", "bye"}

\* The positions of the last 10 messages of the history.
LastTen == {i \in 1..Len(history) : i > Len(history) - 10}

\* A closing term occurs in the line of message i, whatever the case.
ClosingLine(i) ==
  \E t \in ClaimedTerms :
    Contains(Lower(history[i].sender \o ": " \o history[i].content), t)

\* C23: without a usable answer of the platform, the chat-state check
\* returns [CONTINUE] on an empty history and otherwise [CONVERSATION_ENDS]
\* iff a closing term occurs, whatever the case, in the 'sender: content'
\* line of one of the last 10 messages; older messages change nothing.
C23_HeuristicOnLastTen ==
  CheckedWithoutPlatform =>
    last.body = IF Len(history) = 0 THEN "[CONTINUE]"
                ELSE IF \E i \in LastTen : ClosingLine(i)
                  THEN "[CONVERSATION_ENDS]"
                ELSE "[CONTINUE]"

\* A history of 12 messages whose second message is the closing one: the
\* check, whose call of the platform raised, answers [CONTINUE].
C23_Witness ==
  /\ CheckedWithoutPlatform
  /\ sdk_client
  /\ last.request.raised
  /\ Len(history) = 12
  /\ history[2] = UserMessage(ClosingMessage)
  /\ last.body = "[CONTINUE]"

\* The third of 12 messages is the oldest one read.
C23_OldestRead ==
  /\ CheckedWithoutPlatform
  /\ Len(history) = 12
  /\ history[3] = UserMessage("BYE")
  /\ last.body = "[CONVERSATION_ENDS]"

(***************************************************************************)
(* A conversation of several requests with an agent without a platform     *)
(* client: POST /api/chat, the data file being the sample dataset.         *)
(***************************************************************************)
\* The closing message and a greeting in session s1, a question in s2.
ConversationRequests ==
  {[message |-> ClosingMessage, session_id |-> "s1"],
   [message |-> PlainMessage, session_id |-> "s1"],
   [message |-> LabMessage, session_id |-> "s2"]}

ConversationRequest ==
  /\ nreq < MaxConversation
  /\ \E request \in ConversationRequests : chat(request, QuietEnv)
  /\ nreq' = nreq + 1
  /\ UNCHANGED <<sdk_client, agent_id, data_file>>

InitConversation ==
  /\ Construct("", "", FALSE, "ok")
  /\ data_file = File(SampleData)
  /\ last = Nothing
  /\ nreq = 0

NextConversation == ConversationRequest

SpecConversation == InitConversation /\ [][NextConversation]_vars

\* The message of request i of the conversation: every request succeeds
\* and leaves two messages, so that it is message 2i - 1 of the history.
RequestMessage(i) == history[2 * i - 1].content

\* The requests whose message holds a closing term.
ClosingRequests ==
  {i \in 1..nreq : \E t \in ClaimedTerms : Contains(Lower(RequestMessage(i)), t)}

\* The last request is a closing one or one of the 4 requests that follow a
\* closing one.
WithinFourOfClosing == \E i \in ClosingRequests : nreq - i <= 4

\* C24: with no platform client, a request whose message holds a closing
\* term and each of the next 4 requests, of any session id and whatever its
\* message, is answered with the fixed 'Is there anything else I can help
\* you with regarding your health?' text and sets task_complete; a request
\* with no closing request among itself and the 4 requests before it is
\* routed normally, so the 5th request after a closing one is, when no
\* closing term was sent in between.
C24_EndedForFourRequests ==
  (ChatReached /\ nreq >= 1) =>
    /\ Len(history) = 2 * nreq
    /\ WithinFourOfClosing =>
         (last.body = EndedText /\ last.kind = "ended" /\ task_complete
          /\ last.status = 200)
    /\ ~WithinFourOfClosing =>
         (last.kind = LocalKind
          /\ last.body = Handle(LocalKind, last.data).text
          /\ last.body # EndedText)

\* The closing request was the first of six; the fifth request after it, a
\* question about lab results in another session, got its analysis.
C24_Witness ==
  /\ ChatReached
  /\ nreq = 6
  /\ ClosingRequests = {1}
  /\ last.request = [message |-> LabMessage, session_id |-> "s2"]
  /\ last.kind = "blood_tests"
  /\ task_complete

\* The fourth request after the closing one, the same question, got the
\* fixed text.
C24_StillEnded ==
  /\ ChatReached
  /\ nreq = 5
  /\ ClosingRequests = {1}
  /\ last.request = [message |-> LabMessage, session_id |-> "s2"]
  /\ last.body = EndedText

\* The step is a request that reached the agent.
AgentStep == nreq' = nreq + 1 /\ last'.reached_agent

\* C25: the history is append-only; a request the agent answers appends
\* exactly two messages, the user message and then the assistant response,
\* and a request that fails inside an analyzer has stored its session data
\* and appended its user message, without a response; no other step
\* changes the history.
C25_HistoryAppendOnly ==
  [][/\ (AgentStep /\ ~last'.raised)
          => history' = history \o <<UserMessage(last'.request.message),
                                      AssistantMessage(last'.body)>>
     /\ (AgentStep /\ last'.raised)
          => /\ history' = Append(history, UserMessage(last'.request.message))
             /\ sessions'[SessionOf(last'.request)] = [health_data |-> last'.data]
     /\ ~AgentStep => history' = history]_vars

\* After an answered request, a request failed in the blood-test analyzer:
\* the history ends with its user message, after one user/assistant pair.
C25_Witness ==
  /\ ChatReached
  /\ last.raised
  /\ last.kind = "blood_tests"
  /\ Len(history) = 3
  /\ history[1].role = "user" /\ history[2].role = "assistant"
  /\ history[3] = UserMessage(LabMessage)
  /\ sessions[SessionOf(last.request)] = [health_data |-> BrokenData]

\* In a conversation whose requests all succeed the history alternates
\* user and assistant and holds two messages per request.
C25_Alternates ==
  /\ Len(history) = 2 * nreq
  /\ \A i \in 1..Len(history) :
       history[i].role = IF i % 2 = 1 THEN "user" ELSE "assistant"

=============================================================================
